---- MODULE Spec2Model ----
(***************************************************************************)
(* A model of fiddy: the credential store and cache store of               *)
(* fiddy/helper.py and the TD Ameritrade token lifecycle of                *)
(* fiddy/tda/auth.py, the Alpaca calendar of fiddy/alpaca, the market data *)
(* client of fiddy/tda and the chat relay of fiddy/chatbot/rocketchat.py.  *)
(*                                                                         *)
(* Time is counted in ticks, TicksPerSec ticks to the second, so that the  *)
(* clock (datetime.now, microsecond resolution) is finer than the stored   *)
(* expiration strings ('%Y-%m-%d %H:%M:%S %Z%z', whole seconds).           *)
(***************************************************************************)
EXTENDS Integers, Sequences, FiniteSets, TLC

VARIABLES
    now,          \* the wall clock, in ticks
    credentials,  \* TdaAuth.credentials, the in-memory dict
    ini,          \* the credential files on disk: path -> section -> key -> value
    call,         \* the last TdaAuth.get_access_token call: inputs and what it did
    credCall,     \* the last FiddyHelper credential-store call
    disk,         \* the cache files on disk: path -> content
    dirs,         \* the directories that exist
    dataCall,     \* the last FiddyHelper.save_data / load_data call
    today,        \* the date of the wall clock in US/Eastern, a day number
    alpacaCall,   \* the last call of an Alpaca method
    tdaCall,      \* the last call of a Tda method
    channel_ids,  \* RocketChatBot.channel_ids, the rooms subscribed to
    pings,        \* the keep-alive pings the chat relay has received
    sent,         \* the messages the chat relay has sent on its websocket
    botCall,      \* the last RocketChatBot.on_message call
    reqCall,      \* the last FiddyHelper.check_requests call
    loggers,      \* the loggers of the logging module: name -> level, handlers
    fiddy_loggers,\* fiddy.logger.fiddy_loggers: name -> logger
    logCall,      \* the last fiddy.logger.logger call
    workCall,     \* the last run of rocketchatbot in a spawned process
    procs,        \* the concurrent processes at work on one file, by name
    quotesFrame,  \* the frame of candles handed to the indicators
    levelsCall    \* the last call of get_support_resistance

\* The state of the two API clients and of the chat relay.
clientVars == <<today, alpacaCall, tdaCall>>
botVars == <<channel_ids, pings, sent, botCall>>
\* The state of the other helpers and of the processes.
auxVars == <<reqCall, loggers, fiddy_loggers, logCall, workCall, procs>>
\* The state of the indicators.
indVars == <<quotesFrame, levelsCall>>

vars ==
    <<now, credentials, ini, call, credCall, disk, dirs, dataCall,
      today, alpacaCall, tdaCall, channel_ids, pings, sent, botCall,
      reqCall, loggers, fiddy_loggers, logCall, workCall, procs,
      quotesFrame, levelsCall>>

(***************************************************************************)
(* Bounds of the model.                                                    *)
(***************************************************************************)
TicksPerSec == 2
MaxTime == 1

(***************************************************************************)
(* Values.                                                                 *)
(***************************************************************************)
\* Python's None, as an option value or a dict value.
None == "<None>"

\* Python truthiness of a str-or-None value.
Truthy(v) == v # None /\ v # ""

\* The seconds a stored expiration string can name in this model.
Seconds == (0 - 2) .. (MaxTime + 3)

strftime_RoundUp(t) == ToString((t + TicksPerSec - 1) \div TicksPerSec)

\* datetime.strftime('%Y-%m-%d %H:%M:%S %Z%z'): the instant cut to its whole
\* second (the microseconds are dropped), as text.
strftime(t) == ToString(t \div TicksPerSec)

\* datetime.strptime(s, '%Y-%m-%d %H:%M:%S %Z%z'): the instant at the start of
\* the second the text names.
strptime(s) == (CHOOSE n \in Seconds : ToString(n) = s) * TicksPerSec

\* dt.timedelta(seconds=n), in ticks.
timedelta(n) == n * TicksPerSec

(***************************************************************************)
(* Credential store: FiddyHelper.load_credentials / save_credentials.      *)
(* A file is a mapping section -> (key -> value); the files that exist are *)
(* the domain of the file system fs.                                       *)
(***************************************************************************)
load_credentials_Lenient(fs, file_) ==
    IF file_ \notin DOMAIN fs
    THEN [raised |-> None, value |-> <<>>]
    ELSE [raised |-> None, value |-> fs[file_]]

\* Path(file_).exists() or FileNotFoundError; then the parsed file.
load_credentials(fs, file_) ==
    IF file_ \notin DOMAIN fs
    THEN [raised |-> "FileNotFoundError", value |-> <<>>]
    ELSE [raised |-> None, value |-> fs[file_]]

add_section_Reset(loaded, section) ==
    (section :> <<>>) @@ loaded

\* loaded_credentials.add_section(section), DuplicateSectionError passed over.
add_section(loaded, section) ==
    IF section \in DOMAIN loaded THEN loaded ELSE (section :> <<>>) @@ loaded

set_options_KeepOld(loaded, section, creds) ==
    [loaded EXCEPT ![section] = loaded[section] @@ creds]

\* for key, value in credentials.items(): loaded_credentials[section][key] = value
\* (configparser refuses a value that is not a string with TypeError).
set_options(loaded, section, creds) ==
    [loaded EXCEPT ![section] = creds @@ loaded[section]]

save_credentials(fs, file_, section, creds) ==
    LET loaded == load_credentials(fs, file_) IN
    IF loaded.raised # None
    THEN [raised |-> loaded.raised, fs |-> fs]
    ELSE IF \E k \in DOMAIN creds : creds[k] = None
    THEN [raised |-> "TypeError", fs |-> fs]
    ELSE \* open(file_, 'w') and write: the file holds the new image
         [raised |-> None,
          fs |-> (file_ :>
                     set_options(add_section(loaded.value, section), section, creds))
                 @@ fs]

(***************************************************************************)
(* Cache store: FiddyHelper.save_data / load_data.                         *)
(*                                                                         *)
(* A path is its parent directory (a sequence of components) and its file  *)
(* name cut into parts, so that "'.json' in file_" is a test on the parts. *)
(* A Python value is a record tagged with its type.                        *)
(***************************************************************************)
CalendarJson == [parent |-> <<"data">>, name |-> <<"calendar", ".json">>]
DailyCsv == [parent |-> <<"data", "AAPL">>, name |-> <<"daily", ".csv">>]
ProfilePlain == [parent |-> <<"data", "AAPL">>, name |-> <<"profile">>]
DataFiles == {CalendarJson, DailyCsv, ProfilePlain}

\* ext in file_
Contains(file_, ext) ==
    \/ \E i \in DOMAIN file_.name : file_.name[i] = ext
    \/ \E i \in DOMAIN file_.parent : file_.parent[i] = ext

NoneValue == [type |-> "NoneType"]
StrNone == [type |-> "str", value |-> "NONE"]
EmptyDict == [type |-> "dict", keytype |-> "str", keys |-> {}]
Artifact ==
    [type |-> "dict", keytype |-> "str", keys |-> {"expiration", "calendar"}]
\* a dict whose keys are integers
IntKeyDict == [type |-> "dict", keytype |-> "int", keys |-> {"1"}]
EmptyList == [type |-> "list", items |-> <<>>]
ListOfDict == [type |-> "list", items |-> <<Artifact>>]
\* pd.DataFrame()
EmptyFrame ==
    [type |-> "DataFrame", index |-> "", columns |-> <<>>, rows |-> 0]
\* a frame of quotes indexed by Date
DateFrame ==
    [type |-> "DataFrame", index |-> "Date", columns |-> <<"close">>,
     rows |-> 1]
\* pd.DataFrame(candles): the default index, no Date
CandleFrame ==
    [type |-> "DataFrame", index |-> "", columns |-> <<"datetime", "close">>,
     rows |-> 1]

DataValues ==
    {NoneValue, StrNone, EmptyDict, Artifact, IntKeyDict, EmptyList,
     ListOfDict, EmptyFrame, DateFrame, CandleFrame}
DataTypes == {"dict", "lod", "df", "NONE"}

IsDataFrame(data) == data.type = "DataFrame"

\* data.empty
FrameEmpty(data) == data.rows = 0 \/ data.columns = <<>>

\* bool(data) of a value that is no DataFrame
NotEmpty(data) ==
    CASE data.type = "NoneType" -> FALSE
      [] data.type = "str" -> data.value # ""
      [] data.type = "dict" -> data.keys # {}
      [] data.type = "list" -> data.items # <<>>

\* The JSON form of a value: the keys of an object are strings.
JsonObject(data) ==
    IF data.type = "dict" THEN [data EXCEPT !.keytype = "str"] ELSE data

JsonValue(data) ==
    IF data.type = "list"
    THEN [data EXCEPT !.items = [i \in DOMAIN data.items |->
                                    JsonObject(data.items[i])]]
    ELSE JsonObject(data)

\* json.dump(data, f, indent=2): the text of the value
json_dump(data) == [format |-> "json", value |-> JsonValue(data)]

\* data.to_csv(file_): a header of the index label and the columns, then the
\* rows
to_csv(data) ==
    [format |-> "csv", header |-> <<data.index>> \o data.columns,
     rows |-> data.rows]

\* json.loads(f.read())
json_loads(content) ==
    IF content.format = "json"
    THEN [raised |-> None, value |-> content.value]
    ELSE [raised |-> "JSONDecodeError", value |-> NoneValue]

\* The columns left beside the index; an unlabelled one reads "Unnamed: 0".
OtherColumns(header) ==
    LET kept == SelectSeq(header, LAMBDA h : h # "Date") IN
    [i \in DOMAIN kept |-> IF kept[i] = "" THEN "Unnamed: 0" ELSE kept[i]]

\* pd.read_csv(file_, index_col='Date', parse_dates=True)
read_csv(content) ==
    IF content.format = "csv"
       /\ \E i \in DOMAIN content.header : content.header[i] = "Date"
    THEN [raised |-> None,
          value |-> [type |-> "DataFrame", index |-> "Date",
                     columns |-> OtherColumns(content.header),
                     rows |-> content.rows]]
    ELSE [raised |-> "ValueError", value |-> NoneValue]

\* Path(Path(file_).parent).mkdir(parents=True, exist_ok=True)
mkdir(ds, parent) == ds \cup {SubSeq(parent, 1, i) : i \in 1 .. Len(parent)}

\* save_data(file_, data, data_type): what it raises or returns, and the
\* files and directories it leaves.
save_data(fs, ds, file_, data, data_type) ==
    LET fail(error, dirs2) ==
            [raised |-> error, returned |-> FALSE, disk |-> fs, dirs |-> dirs2]
        done(fs2, dirs2) ==
            [raised |-> None, returned |-> TRUE, disk |-> fs2, dirs |-> dirs2]
        made == mkdir(ds, file_.parent)
    IN  IF data_type = "df" /\ ~IsDataFrame(data)
        THEN fail("TypeError", ds)
        ELSE IF data_type = "df" /\ FrameEmpty(data)
        THEN fail("ValueError", ds)
        ELSE IF data_type # "df" /\ (IsDataFrame(data) \/ ~NotEmpty(data))
        THEN \* "not data": empty, or a DataFrame, whose truth value raises
             fail("ValueError", ds)
        ELSE IF data_type \in {"lod", "dict"}
        THEN IF Contains(file_, ".json")
             THEN done((file_ :> json_dump(data)) @@ fs, made)
             ELSE done(fs, made)
        ELSE IF data_type = "df"
        THEN IF Contains(file_, ".csv")
             THEN done((file_ :> to_csv(data)) @@ fs, made)
             ELSE done(fs, made)
        ELSE fail("TypeError", made)

load_data_KindFirst(fs, file_, data_type) ==
    IF data_type \notin {"dict", "df"}
    THEN [raised |-> "TypeError", value |-> NoneValue]
    ELSE IF file_ \notin DOMAIN fs
    THEN [raised |-> None,
          value |-> IF data_type = "df" THEN EmptyFrame ELSE NoneValue]
    ELSE IF data_type = "dict"
    THEN IF Contains(file_, ".json")
         THEN json_loads(fs[file_])
         ELSE [raised |-> None, value |-> NoneValue]
    ELSE IF Contains(file_, ".csv")
         THEN read_csv(fs[file_])
         ELSE [raised |-> None, value |-> NoneValue]

\* load_data(file_, data_type): what it raises or returns.
load_data(fs, file_, data_type) ==
    LET fail(error) == [raised |-> error, value |-> NoneValue]
        done(value) == [raised |-> None, value |-> value]
    IN  IF file_ \notin DOMAIN fs
        THEN IF data_type = "df" THEN done(EmptyFrame) ELSE done(NoneValue)
        ELSE IF data_type = "dict"
        THEN IF Contains(file_, ".json")
             THEN json_loads(fs[file_])
             ELSE done(NoneValue)
        ELSE IF data_type = "df"
        THEN IF Contains(file_, ".csv")
             THEN read_csv(fs[file_])
             ELSE done(NoneValue)
        ELSE fail("TypeError")

NoDataCall ==
    [op |-> "none", file |-> CalendarJson, kind |-> "", data |-> NoneValue,
     raised |-> None, value |-> NoneValue]

SaveData(file_, data, data_type) ==
    LET saved == save_data(disk, dirs, file_, data, data_type) IN
    /\ dataCall' = [op |-> "save_data", file |-> file_, kind |-> data_type,
                    data |-> data, raised |-> saved.raised,
                    value |-> NoneValue]
    /\ disk' = saved.disk
    /\ dirs' = saved.dirs
    /\ UNCHANGED <<now, credentials, ini, call, credCall, clientVars, botVars,
                   auxVars, indVars>>

LoadData(file_, data_type) ==
    LET loaded == load_data(disk, file_, data_type) IN
    /\ dataCall' = [op |-> "load_data", file |-> file_, kind |-> data_type,
                    data |-> NoneValue, raised |-> loaded.raised,
                    value |-> loaded.value]
    /\ UNCHANGED <<now, credentials, ini, call, credCall, disk, dirs,
                   clientVars, botVars,
                   auxVars, indVars>>

(***************************************************************************)
(* TdaAuth: construction.                                                  *)
(***************************************************************************)
CredFile == "fiddy.ini"
TdaSection == "TdaAmeritrade"

UserKeys == {"username", "password", "consumer_key", "redirect_uri"}
TokenKeys == {"access_token", "access_token_expiration", "refresh_token",
              "refresh_token_expiration", "token_type"}
CredKeys == UserKeys \cup {"code"} \cup TokenKeys

\* What the user types at prompt_credentials.
PromptAnswer(key) == "typed-" \o key

\* __init__ with no keyword credentials: every key starts None, takes the
\* file's value when the file has a truthy one (KeyError passed over), and
\* prompt_credentials asks for the four user keys still unset.
TdaAuthInit(fs) ==
    LET loaded == load_credentials(fs, CredFile).value
        fromFile(key) ==
            IF /\ TdaSection \in DOMAIN loaded
               /\ key \in DOMAIN loaded[TdaSection]
               /\ Truthy(loaded[TdaSection][key])
            THEN loaded[TdaSection][key]
            ELSE None
    IN  [key \in CredKeys |->
            IF key \in UserKeys /\ ~Truthy(fromFile(key))
            THEN PromptAnswer(key)
            ELSE fromFile(key)]

(***************************************************************************)
(* TdaAuth.get_access_token.                                               *)
(***************************************************************************)
\* The safety margins taken off the two lifetimes, in seconds.
AccessMargin == 300
RefreshMargin == 432000

RequiredCredentialKeys == {"code"} \cup TokenKeys

\* all([self.credentials[key] for key in required_credential_keys])
HasAllKeys(c) == \A key \in RequiredCredentialKeys : Truthy(c[key])

TokensValid_RefreshOnly(c, time_now) ==
    strptime(c["refresh_token_expiration"]) > time_now

\* refresh_token_expiration > time_now and access_token_expiration > time_now
TokensValid(c, time_now) ==
    /\ strptime(c["refresh_token_expiration"]) > time_now
    /\ strptime(c["access_token_expiration"]) > time_now

\* refresh_token_expiration > time_now and access_token_expiration < time_now
AccessExpired(c, time_now) ==
    /\ strptime(c["refresh_token_expiration"]) > time_now
    /\ strptime(c["access_token_expiration"]) < time_now

\* A variant that never answers from the stored pair.
GrantType_AlwaysPost(c, cache, time_now) ==
    IF cache /\ HasAllKeys(c) /\ AccessExpired(c, time_now)
    THEN "refresh_token"
    ELSE "authorization_code"
\* What the call does with the credentials c at time_now: answer from the
\* stored pair ("cached"), or post with this grant_type.
GrantType(c, cache, time_now) ==
    IF cache /\ HasAllKeys(c)
    THEN IF TokensValid(c, time_now) THEN "cached"
         ELSE IF AccessExpired(c, time_now) THEN "refresh_token"
         ELSE "authorization_code"
    ELSE "authorization_code"

\* The form posted to the token endpoint.
Payload(c, grant) ==
    LET payload == [grant_type |-> grant,
                    access_type |-> "offline",
                    client_id |-> c["consumer_key"],
                    redirect_uri |-> c["redirect_uri"],
                    code |-> c["code"]]
    IN  IF grant = "refresh_token"
        THEN ("refresh_token" :> c["refresh_token"]) @@ payload
        ELSE payload

\* '{} {}'.format(token_type, access_token)
AuthHeader(c) == c["token_type"] \o " " \o c["access_token"]

\* time_now + dt.timedelta(seconds=lifetime - margin)
Expiration(time_now, lifetime, margin) ==
    time_now + timedelta(lifetime - margin)

\* Lines 242-263: the expirations are computed, then the five fields are
\* assigned one by one; a key the response lacks raises KeyError at the
\* statement that reads it, after the assignments before it.
TokenUpdate(c, time_now, json) ==
    LET has(key) == key \in DOMAIN json
        access_token_expiration ==
            Expiration(time_now, json["expires_in"], AccessMargin)
        refresh_token_expiration ==
            Expiration(time_now, json["refresh_token_expires_in"],
                       RefreshMargin)
        c1 == [c EXCEPT !["access_token"] = json["access_token"],
                        !["access_token_expiration"] =
                            strftime(access_token_expiration)]
        c2 == [c1 EXCEPT !["refresh_token"] = json["refresh_token"],
                         !["refresh_token_expiration"] =
                             strftime(refresh_token_expiration)]
        c3 == [c2 EXCEPT !["token_type"] = json["token_type"]]
    IN  IF ~has("expires_in") \/ ~has("refresh_token_expires_in")
           \/ ~has("access_token")
        THEN [raised |-> "KeyError", credentials |-> c]
        ELSE IF ~has("refresh_token")
        THEN [raised |-> "KeyError", credentials |-> c1]
        ELSE IF ~has("token_type")
        THEN [raised |-> "KeyError", credentials |-> c2]
        ELSE [raised |-> None, credentials |-> c3]

\* Inputs of the environment: the code the browser login yields (None when
\* get_code fails), and the token endpoint's answer.
Codes == {"c1"}
TokenPairs == {<<"a1", "r1">>}
\* The lifetimes the endpoint grants: shorter than the margin, or longer; the
\* longer refresh lifetime runs out, after its margin, before the longer access
\* lifetime does after its own.
ExpiresIn == {AccessMargin - 1, AccessMargin + 2}
RefreshExpiresIn == {RefreshMargin - 1, RefreshMargin + 1}

Json(a, r, pair) ==
    [expires_in |-> a, refresh_token_expires_in |-> r,
     access_token |-> pair[1], refresh_token |-> pair[2],
     token_type |-> "Bearer"]

\* The endpoint's answers: no answer (requests.post raises), an error body
\* (none of the token keys), or a token response.
ErrorJson == [error |-> "invalid_grant"]

Responses ==
    {[raised |-> TRUE, json |-> <<>>], [raised |-> FALSE, json |-> ErrorJson]}
    \cup {[raised |-> FALSE, json |-> Json(a, r, pair)] :
            a \in ExpiresIn, r \in RefreshExpiresIn, pair \in TokenPairs}

\* No call yet. seq tells one call from the next (it alternates), so that a
\* call is a step of the model even when it changes nothing else.
NoCall ==
    [op |-> "none", seq |-> 0, time |-> 0, save |-> FALSE, cache |-> FALSE,
     get_code |-> FALSE, posts |-> <<>>, json |-> <<>>,
     raised |-> None, returned |-> None]

\* get_access_token(save, cache) on the credentials c and the credential
\* files fs at time_now, after the call last: the record of the call, and the
\* credentials and the files it leaves.
get_access_token(c, fs, last, time_now, save, cache, code_out, resp) ==
    LET need_code == ~Truthy(c["code"])
        started == [NoCall EXCEPT !.op = "get_access_token",
                                  !.seq = 1 - last.seq, !.time = time_now,
                                  !.save = save, !.cache = cache,
                                  !.get_code = need_code]
        c0 == IF need_code THEN [c EXCEPT !["code"] = code_out] ELSE c
        grant == GrantType(c0, cache, time_now)
        posted == [started EXCEPT !.posts = <<Payload(c0, grant)>>]
        update == TokenUpdate(c0, time_now, resp.json)
        saved == save_credentials(fs, CredFile, TdaSection, update.credentials)
        answered == [posted EXCEPT !.json = resp.json]
    IN  IF need_code /\ code_out = None
        THEN \* get_code raises
             [call |-> [started EXCEPT !.raised = "get_code"],
              credentials |-> c, ini |-> fs]
        ELSE IF grant = "cached"
        THEN [call |-> [started EXCEPT !.returned = AuthHeader(c0)],
              credentials |-> c0, ini |-> fs]
        ELSE IF resp.raised
        THEN \* requests.post raises, logged and raised again
             [call |-> [posted EXCEPT !.raised = "RequestException"],
              credentials |-> c0, ini |-> fs]
        ELSE IF update.raised # None
        THEN [call |-> [answered EXCEPT !.raised = update.raised],
              credentials |-> update.credentials, ini |-> fs]
        ELSE IF save /\ saved.raised # None
        THEN [call |-> [answered EXCEPT !.raised = saved.raised],
              credentials |-> update.credentials, ini |-> fs]
        ELSE [call |-> [answered EXCEPT
                            !.returned = AuthHeader(update.credentials)],
              credentials |-> update.credentials,
              ini |-> IF save THEN saved.fs ELSE fs]

GetAccessToken(save, cache, code_out, resp) ==
    LET token == get_access_token(credentials, ini, call, now, save, cache,
                                  code_out, resp)
    IN  /\ call' = token.call
        /\ credentials' = token.credentials
        /\ ini' = token.ini
        /\ UNCHANGED <<now, credCall, disk, dirs, dataCall, clientVars, botVars,
                   auxVars, indVars>>

\* The clock advances.
Tick ==
    /\ now < MaxTime * TicksPerSec
    /\ now' = now + 1
    /\ UNCHANGED <<credentials, ini, call, credCall, disk, dirs, dataCall,
                   clientVars, botVars,
                   auxVars, indVars>>

(***************************************************************************)
(* The token lifecycle: a TdaAuth built on a credentials file, then calls  *)
(* of get_access_token as time passes.                                     *)
(***************************************************************************)
OtherSection == "alpaca_paper"

StoredUser ==
    [username |-> "u", password |-> "p", consumer_key |-> "k",
     redirect_uri |-> "http://localhost"]

StoredTokens ==
    [code |-> "c0", access_token |-> "a0", access_token_expiration |-> "0",
     refresh_token |-> "r0", refresh_token_expiration |-> "1",
     token_type |-> "Bearer"]

InitFiles ==
    {s @@ (OtherSection :> [api_key |-> "x"]) :
        s \in {<<>>, TdaSection :> StoredUser,
               TdaSection :> (StoredUser @@ StoredTokens)}}

NoCredCall ==
    [op |-> "none", file |-> "", section |-> "", values |-> <<>>,
     raised |-> None, loaded |-> <<>>]

\* No call of an Alpaca method, of a Tda method, of on_message yet.
NoAlpacaCall == [op |-> "none", seq |-> 0]
NoTdaCall == [op |-> "none", seq |-> 0]
NoBotCall == [op |-> "none", seq |-> 0]

\* No call of check_requests, of logger, no run of rocketchatbot yet.
NoReqCall == [op |-> "none", seq |-> 0]
NoLogCall == [op |-> "none", seq |-> 0]
NoWorkCall == [op |-> "none", seq |-> 0]
NoLevelsCall == [op |-> "none"]

\* No logger exists, none is registered, no process is at work, no
\* indicator was asked for.
InitAux ==
    /\ reqCall = NoReqCall
    /\ loggers = <<>>
    /\ fiddy_loggers = <<>>
    /\ logCall = NoLogCall
    /\ workCall = NoWorkCall
    /\ procs = <<>>
    /\ quotesFrame = <<>>
    /\ levelsCall = NoLevelsCall

\* RocketChatBot(channels='gwang-test,finance'): one id for each channel named
TwoChannels == <<"id-gwang-test", "id-finance">>

Init ==
    /\ now = 0
    /\ \E f \in InitFiles : ini = (CredFile :> f)
    /\ credentials = TdaAuthInit(ini)
    /\ call = NoCall
    /\ credCall = NoCredCall
    /\ disk = <<>>
    /\ dirs = {}
    /\ dataCall = NoDataCall
    /\ today = 1
    /\ alpacaCall = NoAlpacaCall
    /\ tdaCall = NoTdaCall
    /\ channel_ids = TwoChannels
    /\ pings = 0
    /\ sent = <<>>
    /\ botCall = NoBotCall
    /\ InitAux

Call ==
    \E save \in BOOLEAN, cache \in BOOLEAN, code_out \in Codes \cup {None},
       resp \in Responses :
        \* get_code is asked for a code only when none is held
        /\ Truthy(credentials["code"]) => code_out = None
        /\ GetAccessToken(save, cache, code_out, resp)

Next == Call \/ Tick

Spec == Init /\ [][Next]_vars

(***************************************************************************)
(* Token lifecycle: properties.                                            *)
(***************************************************************************)
\* A step that is a call of get_access_token.
IsCall == call'.seq # call.seq

\* The call posted to the token endpoint / answered from the stored pair.
Posted(c) == c.op = "get_access_token" /\ Len(c.posts) = 1
Exchanged(c) == Posted(c) /\ c.returned # None
AnsweredFromStore(c) ==
    c.op = "get_access_token" /\ c.posts = <<>> /\ c.returned # None

\* C1: a cache=True call with a complete stored pair, made at a time now with
\* access_token_expiration < now <= refresh_token_expiration, posts a
\* refresh_token grant carrying the stored refresh token, returns the access
\* token the endpoint issues, and does not invoke get_code.
C1_RefreshInWindow ==
    [][(/\ IsCall
        /\ call'.cache
        /\ HasAllKeys(credentials)
        /\ strptime(credentials["access_token_expiration"]) < now
        /\ now <= strptime(credentials["refresh_token_expiration"]))
       => (/\ ~call'.get_code
           /\ Posted(call')
           /\ call'.posts[1]["grant_type"] = "refresh_token"
           /\ "refresh_token" \in DOMAIN call'.posts[1]
           /\ call'.posts[1]["refresh_token"] = credentials["refresh_token"]
           /\ ("access_token" \in DOMAIN call'.json
                 => call'.returned
                      = call'.json["token_type"] \o " "
                          \o call'.json["access_token"]))]_vars

\* C2: a call with a complete stored pair whose refresh_token_expiration is
\* before now invokes get_code and posts an authorization_code grant with the
\* new code: neither the code held before the call nor the expired refresh
\* token is sent.
C2_RestartFromNoCode ==
    [][(/\ IsCall
        /\ HasAllKeys(credentials)
        /\ strptime(credentials["refresh_token_expiration"]) < now)
       => (/\ call'.get_code
           /\ Posted(call')
              => (/\ call'.posts[1]["grant_type"] = "authorization_code"
                  /\ call'.posts[1]["code"] # credentials["code"]
                  /\ "refresh_token" \notin DOMAIN call'.posts[1]))]_vars

\* C3: whenever a call returned the stored access token without contacting
\* the token endpoint, both stored expirations are strictly later than the
\* time of the call, and what it returned is the stored token.
C3_StoredTokenNotExpired ==
    AnsweredFromStore(call)
    => /\ strptime(credentials["access_token_expiration"]) > call.time
       /\ strptime(credentials["refresh_token_expiration"]) > call.time
       /\ call.returned
            = credentials["token_type"] \o " " \o credentials["access_token"]

C3_Witness ==
    /\ AnsweredFromStore(call)
    /\ call.time > 0
    /\ credentials["access_token"] = "a1"

\* What the TdaAmeritrade section of the credentials file holds, by key.
Stored(fs, key) == fs[CredFile][TdaSection][key]

\* C4: a call that obtains tokens from the endpoint with save=True leaves the
\* TdaAmeritrade section holding the issued access_token, refresh_token and
\* token_type and the two expirations just recorded; with save=False the
\* file is unchanged; a call answered from the stored pair writes nothing.
C4_Persist ==
    [][IsCall
       => /\ (Exchanged(call') /\ call'.save)
             => /\ TdaSection \in DOMAIN ini'[CredFile]
                /\ TokenKeys \subseteq DOMAIN ini'[CredFile][TdaSection]
                /\ Stored(ini', "access_token") = call'.json["access_token"]
                /\ Stored(ini', "refresh_token") = call'.json["refresh_token"]
                /\ Stored(ini', "token_type") = call'.json["token_type"]
                /\ \A key \in TokenKeys : Stored(ini', key) = credentials'[key]
          /\ ~call'.save => ini' = ini
          /\ AnsweredFromStore(call') => ini' = ini]_vars

C4_Witness ==
    /\ Exchanged(call)
    /\ call.save
    /\ call.posts[1]["grant_type"] = "refresh_token"
    /\ Stored(ini, "access_token") = "a1"

\* The instant t + n seconds - margin seconds, in ticks.
Due(t, n, margin) == t + (n - margin) * TicksPerSec

\* C5 as stated: after an exchange or refresh started at t, the recorded
\* expirations are exactly t + expires_in - 300 s and
\* t + refresh_token_expires_in - 432000 s.
C5_ExactExpirations ==
    Exchanged(call)
    => /\ strptime(credentials["access_token_expiration"])
            = Due(call.time, call.json["expires_in"], 300)
       /\ strptime(credentials["refresh_token_expiration"])
            = Due(call.time, call.json["refresh_token_expires_in"], 432000)

\* e is the instant d cut down to its whole second.
CutToSecond(e, d) == e <= d /\ d < e + TicksPerSec /\ e % TicksPerSec = 0

\* C5, amended: the recorded expirations are t + expires_in - 300 s and
\* t + refresh_token_expires_in - 432000 s cut down to the whole second (the
\* stored text carries no fraction of a second), also when the lifetime is
\* shorter than the margin.
C5_ExpirationsToTheSecond ==
    Exchanged(call)
    => /\ CutToSecond(strptime(credentials["access_token_expiration"]),
                      Due(call.time, call.json["expires_in"], 300))
       /\ CutToSecond(strptime(credentials["refresh_token_expiration"]),
                      Due(call.time, call.json["refresh_token_expires_in"],
                          432000))

C5_Witness ==
    /\ Exchanged(call)
    /\ call.time % TicksPerSec # 0
    /\ call.json["expires_in"] < 300
    /\ call.json["refresh_token_expires_in"] > 432000
    /\ strptime(credentials["access_token_expiration"]) < call.time

\* C26: a call with cache=False invokes get_code, whatever code and tokens
\* are held, and what it posts is an authorization_code grant carrying a code
\* other than the one held before the call.
C26_NoCacheNewCode ==
    [][(IsCall /\ ~call'.cache)
       => /\ call'.get_code
          /\ Posted(call')
             => (/\ call'.posts[1]["grant_type"] = "authorization_code"
                 /\ call'.posts[1]["code"] # credentials["code"])]_vars

\* The call before this one obtained tokens with lifetimes above both margins.
AfterLongExchange ==
    /\ Exchanged(call)
    /\ call.json["expires_in"] > 300
    /\ call.json["refresh_token_expires_in"] > 432000

\* The call returns what the call before returned, without a request to the
\* token endpoint and without get_code.
SameTokenNoRequest ==
    /\ AnsweredFromStore(call')
    /\ ~call'.get_code
    /\ call'.returned = call.returned

\* C28 as stated: after an exchange or refresh with expires_in > 300 and
\* refresh_token_expires_in > 432000, a following call (cache=True) made
\* before the recorded access_token_expiration returns the same string, with
\* no request and no get_code.
C28_HasTokensAgain ==
    [][(/\ IsCall
        /\ AfterLongExchange
        /\ call'.cache
        /\ now < strptime(credentials["access_token_expiration"]))
       => SameTokenNoRequest]_vars

\* C28, amended: the same, for a following call made before the recorded
\* access_token_expiration and before the recorded refresh_token_expiration.
C28_HasTokensWhileBothLast ==
    [][(/\ IsCall
        /\ AfterLongExchange
        /\ call'.cache
        /\ now < strptime(credentials["access_token_expiration"])
        /\ now < strptime(credentials["refresh_token_expiration"]))
       => SameTokenNoRequest]_vars

\* A call at a later time was answered with the token the endpoint issued.
C28_Witness ==
    /\ AnsweredFromStore(call)
    /\ call.cache
    /\ call.time > 0
    /\ call.returned = "Bearer a1"
    /\ credentials["refresh_token"] = "r1"
    /\ strptime(credentials["refresh_token_expiration"]) > call.time

(***************************************************************************)
(* The credential store on its own: load_credentials and save_credentials  *)
(* called on a file that exists and on one that does not.                  *)
(***************************************************************************)
MissingFile == "missing.ini"
CredPaths == {CredFile, MissingFile}
Sections == {TdaSection, OtherSection}

\* The dicts handed to save_credentials: string keys to string values.
OptionKeys == {"api_key", "token"}
OptionValues == {"v1", "v2"}
CredentialDicts ==
    UNION {[keys -> OptionValues] : keys \in SUBSET OptionKeys}

LoadCredentials(file_) ==
    LET loaded == load_credentials(ini, file_) IN
    /\ credCall' = [op |-> "load_credentials", file |-> file_,
                    section |-> "", values |-> <<>>,
                    raised |-> loaded.raised, loaded |-> loaded.value]
    /\ UNCHANGED <<now, credentials, ini, call, disk, dirs, dataCall,
                   clientVars, botVars,
                   auxVars, indVars>>

SaveCredentials(file_, section, creds) ==
    LET saved == save_credentials(ini, file_, section, creds) IN
    /\ credCall' = [op |-> "save_credentials", file |-> file_,
                    section |-> section, values |-> creds,
                    raised |-> saved.raised, loaded |-> <<>>]
    /\ ini' = saved.fs
    /\ UNCHANGED <<now, credentials, call, disk, dirs, dataCall,
                   clientVars, botVars,
                   auxVars, indVars>>

NextCred ==
    \/ \E file_ \in CredPaths : LoadCredentials(file_)
    \/ \E file_ \in CredPaths, section \in Sections,
          creds \in CredentialDicts :
            SaveCredentials(file_, section, creds)

SpecCred == Init /\ [][NextCred]_vars

\* C6: save_credentials on an existing file returns, and afterwards the
\* section exists, every key of values has the given value in it, every other
\* key of that section and every key of every other section has the value it
\* had before the call, and no other key or section has appeared.
C6_SaveOverwritesOnlyGivenKeys ==
    [][(credCall'.op = "save_credentials" /\ credCall'.file \in DOMAIN ini)
       => LET f == credCall'.file
              sec == credCall'.section
              values == credCall'.values
              before == ini[f]
              after == ini'[f]
          IN  /\ credCall'.raised = None
              /\ DOMAIN ini' = DOMAIN ini
              /\ DOMAIN after = DOMAIN before \cup {sec}
              /\ \A key \in DOMAIN values : after[sec][key] = values[key]
              /\ DOMAIN after[sec]
                   = DOMAIN values
                       \cup (IF sec \in DOMAIN before
                             THEN DOMAIN before[sec] ELSE {})
              /\ \A key \in DOMAIN after[sec] \ DOMAIN values :
                     after[sec][key] = before[sec][key]
              /\ \A other \in DOMAIN before \ {sec} :
                     after[other] = before[other]
              /\ \A path \in DOMAIN ini \ {f} : ini'[path] = ini[path]]_vars

C6_Witness ==
    /\ credCall.op = "save_credentials"
    /\ credCall.raised = None
    /\ credCall.section = TdaSection
    /\ credCall.values = [token |-> "v2"]
    /\ "username" \in DOMAIN ini[CredFile][TdaSection]
    /\ "api_key" \in DOMAIN ini[CredFile][TdaSection]
    /\ ini[CredFile][OtherSection] = [api_key |-> "x"]

\* C7: load_credentials on a path that does not exist fails with
\* FileNotFoundError, and so does save_credentials, which creates no file.
C7_MissingFileNotFound ==
    [][(credCall'.op # "none" /\ credCall'.file \notin DOMAIN ini)
       => /\ credCall'.raised = "FileNotFoundError"
          /\ ini' = ini]_vars

C7_Witness ==
    /\ credCall.op = "save_credentials"
    /\ credCall.file = MissingFile
    /\ credCall.raised = "FileNotFoundError"
    /\ MissingFile \notin DOMAIN ini

(***************************************************************************)
(* The cache store on its own: save_data and load_data on a data directory *)
(* that starts empty.                                                      *)
(***************************************************************************)
NextCache ==
    \/ \E file_ \in DataFiles, data \in DataValues, data_type \in DataTypes :
          SaveData(file_, data, data_type)
    \/ \E file_ \in DataFiles, data_type \in DataTypes :
          LoadData(file_, data_type)

InitCache == Init /\ TdaSection \notin DOMAIN ini[CredFile]

SpecCache == InitCache /\ [][NextCache]_vars

\* data is a non-empty value of the kind data_type.
ValueOfKind(data, data_type) ==
    \/ data_type = "dict" /\ data.type = "dict" /\ data.keys # {}
    \/ data_type = "lod" /\ data.type = "list" /\ data.items # <<>>
    \/ data_type = "df" /\ IsDataFrame(data) /\ ~FrameEmpty(data)

\* C8: for every kind save_data accepts and every non-empty value of that
\* kind, load_data called right after a save_data that returned True, on the
\* same file and kind, returns the saved value.
C8_RoundTrip ==
    [][(/\ dataCall.op = "save_data"
        /\ dataCall.raised = None
        /\ ValueOfKind(dataCall.data, dataCall.kind)
        /\ dataCall'.op = "load_data"
        /\ dataCall'.file = dataCall.file
        /\ dataCall'.kind = dataCall.kind)
       => (dataCall'.raised = None /\ dataCall'.value = dataCall.data)]_vars

\* C9: save_data either raises or, when it returns True, leaves the file
\* holding the serialized data, whatever the file's name; empty data, and a
\* value that is no dataframe for kind 'df', raise.
C9_NeverDropsData ==
    [][dataCall'.op = "save_data"
       => LET f == dataCall'.file
              data == dataCall'.data
          IN  /\ dataCall'.raised = None
                 => /\ f \in DOMAIN disk'
                    /\ disk'[f] = IF dataCall'.kind = "df"
                                  THEN to_csv(data) ELSE json_dump(data)
              /\ (data \in {NoneValue, EmptyDict, EmptyList, EmptyFrame}
                  \/ (dataCall'.kind = "df" /\ ~IsDataFrame(data)))
                 => dataCall'.raised # None]_vars

SupportedKinds == {"dict", "lod", "df"}

\* C11: for a kind outside the supported set, save_data and load_data raise
\* TypeError whatever the file and the data (a missing file and empty data
\* included), and a save_data that fails this way leaves the files and the
\* directories as they were.
C11_UnknownKindTypeError ==
    [][(dataCall'.op # "none" /\ dataCall'.kind \notin SupportedKinds)
       => /\ dataCall'.raised = "TypeError"
          /\ dataCall'.op = "save_data" => (disk' = disk /\ dirs' = dirs)]_vars

(***************************************************************************)
(* Calls of the cache store by keyword, as the clients make them.          *)
(***************************************************************************)
\* def save_data(file_, data=None, data_type=None) and
\* def load_data(file_, data_type): the parameters
SaveDataParams == {"file_", "data", "data_type"}
LoadDataParams == {"file_", "data_type"}

\* A call by keyword binds when every keyword names a parameter and every
\* parameter without a default has a value; a call that does not bind raises
\* TypeError before the body runs.
Binds(kwargs, params, required) ==
    /\ DOMAIN kwargs \subseteq params
    /\ required \subseteq DOMAIN kwargs

Arg(kwargs, name, default) ==
    IF name \in DOMAIN kwargs THEN kwargs[name] ELSE default

\* FiddyHelper.save_data(**kwargs)
call_save_data(fs, ds, kwargs) ==
    IF Binds(kwargs, SaveDataParams, {"file_"})
    THEN save_data(fs, ds, kwargs.file_, Arg(kwargs, "data", NoneValue),
                   Arg(kwargs, "data_type", None))
    ELSE [raised |-> "TypeError", returned |-> FALSE, disk |-> fs, dirs |-> ds]

\* FiddyHelper.load_data(**kwargs)
call_load_data(fs, kwargs) ==
    IF Binds(kwargs, LoadDataParams, LoadDataParams)
    THEN load_data(fs, kwargs.file_, kwargs.data_type)
    ELSE [raised |-> "TypeError", value |-> NoneValue]

(***************************************************************************)
(* Dates and times of day. A date is a day number of one month; a datetime *)
(* is a date, a time of day <<hour, minute, second>> and the UTC offset    *)
(* its tzinfo gives it.                                                    *)
(***************************************************************************)
Dates == 1 .. 30

Pad2(n) == (IF n < 10 THEN "0" ELSE "") \o ToString(n)

\* str(date): '%Y-%m-%d'
isoformat(d) == "2020-09-" \o Pad2(d)

\* dt.datetime.strptime(s, '%Y-%m-%d').date()
strptime_date(s) == CHOOSE d \in Dates : isoformat(d) = s

Date(d) == [type |-> "date", date |-> d]
DateTime(d, hms, tzname) ==
    [type |-> "datetime", date |-> d, hms |-> hms, tz |-> tzname]

\* The offset from UTC, in minutes: tz.localize and datetime.now(tz) give the
\* zone's daylight time, replace(tzinfo=tz) gives pytz's first entry of the
\* zone, local mean time (LMT-1 day, 19:04:00).
utcoffset(tzname) == IF tzname = "LMT" THEN 0 - 296 ELSE 0 - 240

\* The instant of an aware datetime, in seconds.
Instant(t) ==
    ((t.date * 24 + t.hms[1]) * 60 + t.hms[2] - utcoffset(t.tz)) * 60
    + t.hms[3]

\* a < b of two aware datetimes
Before(a, b) == Instant(a) < Instant(b)

\* The opening and closing times the remote calendar names.
ClockTimes == {<<9, 30>>, <<13, 0>>, <<16, 0>>}

\* 'HH:MM'
HHMM(hm) == Pad2(hm[1]) \o ":" \o Pad2(hm[2])

\* int(s.split(':')[0]), int(s.split(':')[1])
ParseHHMM(s) == CHOOSE hm \in ClockTimes : HHMM(hm) = s

List(items) == [type |-> "list", items |-> items]

(***************************************************************************)
(* Alpaca: the market calendar.                                            *)
(***************************************************************************)
\* The days the calendar artifacts stay valid: timedelta(days=7) for
\* calendar.json, timedelta(days=1) for calendar.pickle.
CalendarLifetime == 7
CalendarDtLifetime == 1

\* f"{self.data_dir}/calendar.json" and f"{self.data_dir}/calendar.pickle"
AlpacaCalendarJson ==
    [parent |-> <<"alpaca">>, name |-> <<"calendar", ".json">>]
AlpacaCalendarPickle ==
    [parent |-> <<"alpaca">>, name |-> <<"calendar", ".pickle">>]

\* {'expiration': ..., 'calendar': ...}
CalendarArtifact(expiration, calendar) ==
    [type |-> "dict", keytype |-> "str", keys |-> {"expiration", "calendar"},
     expiration |-> expiration, calendar |-> calendar]

\* day._raw of one day of the remote calendar
RawDay(d, close) ==
    [date |-> isoformat(d), open |-> HHMM(<<9, 30>>), close |-> HHMM(close)]

\* What self.api.get_calendar() answers: it raises, or it returns the
\* business days, sorted by date.
ApiCalendars ==
    {List(<<RawDay(1, <<16, 0>>), RawDay(2, <<13, 0>>)>>),
     List(<<RawDay(1, <<16, 0>>), RawDay(2, <<16, 0>>),
            RawDay(3, <<16, 0>>)>>)}
ApiAnswers ==
    {[raised |-> TRUE, value |-> List(<<>>)]}
    \cup {[raised |-> FALSE, value |-> c] : c \in ApiCalendars}

\* What a method of Alpaca leaves: what it raised or returned, the calls of
\* the remote API it made, and the files and directories.
AlpacaResult(raised, returned, fetched, fs, ds) ==
    [raised |-> raised, returned |-> returned, fetched |-> fetched,
     disk |-> fs, dirs |-> ds]

\* get_calendar(cache) on the date day
get_calendar(fs, ds, day, cache, api) ==
    LET file_ == AlpacaCalendarJson
        \* lines 80-84
        save(saved) ==
            IF saved.raised # None
            THEN AlpacaResult(saved.raised, NoneValue, 1,
                              saved.disk, saved.dirs)
            ELSE AlpacaResult(None, api.value, 1, saved.disk, saved.dirs)
        \* lines 66-78
        fetch ==
            IF api.raised
            THEN AlpacaResult("APIError", NoneValue, 1, fs, ds)
            ELSE save(call_save_data(fs, ds,
                        [file_ |-> file_, input_data_type |-> "dict",
                         data |-> CalendarArtifact(
                                    isoformat(day + CalendarLifetime),
                                    api.value)]))
        \* lines 56-63
        read(data) ==
            IF NotEmpty(data) /\ strptime_date(data.expiration) > day
            THEN AlpacaResult(None, data.calendar, 0, fs, ds)
            ELSE fetch
        \* lines 49-54: an exception of load_data is logged and passed, and
        \* data stays {}
        load(loaded) ==
            IF loaded.raised = None THEN read(loaded.value)
            ELSE read(EmptyDict)
    IN  IF cache
        THEN load(call_load_data(fs, [file_ |-> file_,
                                      output_data_type |-> "dict"]))
        ELSE fetch

\* One entry of the calendar in datetime format: the date with the hours of
\* the raw entry, tzinfo=tz put on by replace.
EntryDt(cal) ==
    LET date == strptime_date(cal.date)
        open == ParseHHMM(cal.open)
        close == ParseHHMM(cal.close)
    IN  [market_open |-> DateTime(date, <<open[1], open[2], 0>>, "LMT"),
         market_close |-> DateTime(date, <<close[1], close[2], 0>>, "LMT"),
         session_open |-> DateTime(date, <<0, 0, 1>>, "LMT"),
         session_close |-> DateTime(date, <<23, 59, 59>>, "LMT")]

\* get_calendar_dt() on the date day
get_calendar_dt(fs, ds, day, api) ==
    LET file_ == AlpacaCalendarPickle
        \* lines 143-146
        save(saved, calendar_dt, fetched) ==
            IF saved.raised # None
            THEN AlpacaResult(saved.raised, NoneValue, fetched,
                              saved.disk, saved.dirs)
            ELSE AlpacaResult(None, calendar_dt, fetched,
                              saved.disk, saved.dirs)
        \* lines 117-142
        convert(got, calendar_dt) ==
            save(call_save_data(got.disk, got.dirs,
                    [file_ |-> file_,
                     data |-> CalendarArtifact(
                                isoformat(day + CalendarDtLifetime),
                                calendar_dt),
                     input_data_type |-> "dict"]),
                 calendar_dt, got.fetched)
        \* line 116
        build(got) ==
            IF got.raised # None
            THEN got
            ELSE convert(got, List([i \in DOMAIN got.returned.items |->
                                       EntryDt(got.returned.items[i])]))
        \* lines 107-113
        load(loaded) ==
            IF loaded.raised # None
            THEN AlpacaResult(loaded.raised, NoneValue, 0, fs, ds)
            ELSE IF NotEmpty(loaded.value)
            THEN \* a date compared with the str of 'expiration'
                 AlpacaResult("TypeError", NoneValue, 0, fs, ds)
            ELSE build(get_calendar(fs, ds, day, TRUE, api))
    IN  load(call_load_data(fs, [file_ |-> file_,
                                 output_data_type |-> "dict"]))

\* Lines 170-185: the time the lookup uses. A bare date becomes 18:00:00, or
\* 23:59:59 with extended hours, localized; a datetime whose '%H:%M' is
\* '00:00' has its hour and minute replaced (and its second, with extended
\* hours); any other value is kept.
LookupTime(time_, extended_hours) ==
    IF time_.type = "date"
    THEN DateTime(time_.date,
                  IF extended_hours THEN <<23, 59, 59>> ELSE <<18, 0, 0>>,
                  "EDT")
    ELSE IF time_.hms[1] = 0 /\ time_.hms[2] = 0
    THEN [time_ EXCEPT !.hms = IF extended_hours THEN <<23, 59, 59>>
                                ELSE <<18, 0, time_.hms[3]>>]
    ELSE time_

\* The closing time the lookup compares.
ClosingField(extended_hours) ==
    IF extended_hours THEN "session_close" ELSE "market_close"

\* [cal[field] for cal in calendar if cal[field] < time_]
ClosedBefore(calendar, field, time_) ==
    SelectSeq(calendar.items, LAMBDA cal : Before(cal[field], time_))

\* get_last_closing_date(time_, extended_hours) on the date day; used is the
\* time the lookup was made with, None when the call did not get that far.
get_last_closing_date(fs, ds, day, api, time_, extended_hours) ==
    LET field == ClosingField(extended_hours)
        \* lines 188-197
        last(calendar, used, closing) ==
            IF closing = <<>>
            THEN [calendar EXCEPT !.raised = "IndexError",
                                  !.returned = NoneValue]
                 @@ [used |-> used]
            ELSE [calendar EXCEPT
                    !.returned = Date(closing[Len(closing)][field].date)]
                 @@ [used |-> used]
        \* lines 170-186
        lookup(calendar, used) ==
            last(calendar, used, ClosedBefore(calendar.returned, field, used))
        \* line 168
        start(calendar) ==
            IF calendar.raised # None
            THEN calendar @@ [used |-> NoneValue]
            ELSE lookup(calendar, LookupTime(time_, extended_hours))
    IN  start(get_calendar_dt(fs, ds, day, api))

\* What a call of a method of Alpaca leaves in the state.
AlpacaReturns(op, cache, api, time_, extended_hours, got) ==
    /\ alpacaCall' = [op |-> op, seq |-> 1 - alpacaCall.seq,
                      cache |-> cache, api |-> api,
                      time_ |-> time_, extended_hours |-> extended_hours,
                      raised |-> got.raised, returned |-> got.returned,
                      fetched |-> got.fetched, used |-> got.used,
                      day |-> today]
    /\ disk' = got.disk
    /\ dirs' = got.dirs
    /\ UNCHANGED <<now, credentials, ini, call, credCall, dataCall, today,
                   tdaCall, botVars,
                   auxVars, indVars>>

GetCalendar(cache, api) ==
    AlpacaReturns("get_calendar", cache, api, NoneValue, FALSE,
                  get_calendar(disk, dirs, today, cache, api)
                  @@ [used |-> NoneValue])

GetCalendarDt(api) ==
    AlpacaReturns("get_calendar_dt", TRUE, api, NoneValue, FALSE,
                  get_calendar_dt(disk, dirs, today, api)
                  @@ [used |-> NoneValue])

GetLastClosingDate(time_, extended_hours, api) ==
    AlpacaReturns("get_last_closing_date", TRUE, api, time_, extended_hours,
                  get_last_closing_date(disk, dirs, today, api, time_,
                                        extended_hours))

\* The days the date of the clock runs through.
MaxDay == 2

\* Midnight passes.
DayTick ==
    /\ today < MaxDay
    /\ today' = today + 1
    /\ UNCHANGED <<now, credentials, ini, call, credCall, disk, dirs,
                   dataCall, alpacaCall, tdaCall, botVars,
                   auxVars, indVars>>

(***************************************************************************)
(* An Alpaca client on a data directory that is empty or holds a           *)
(* calendar.json saved earlier, valid on the first day and expired on the  *)
(* next.                                                                   *)
(***************************************************************************)
\* The start with the credentials file holding the sections f, and the data
\* directory holding the files fs.
InitOn(f, fs) ==
    /\ now = 0
    /\ ini = (CredFile :> f)
    /\ credentials = TdaAuthInit(ini)
    /\ call = NoCall
    /\ credCall = NoCredCall
    /\ disk = fs
    /\ dirs = UNION {mkdir({}, file_.parent) : file_ \in DOMAIN fs}
    /\ dataCall = NoDataCall
    /\ today = 1
    /\ alpacaCall = NoAlpacaCall
    /\ tdaCall = NoTdaCall
    /\ channel_ids = TwoChannels
    /\ pings = 0
    /\ sent = <<>>
    /\ botCall = NoBotCall
    /\ InitAux

SavedCalendar == List(<<RawDay(1, <<16, 0>>)>>)

AlpacaDisks ==
    {<<>>,
     AlpacaCalendarJson :>
        json_dump(CalendarArtifact(isoformat(2), SavedCalendar))}

\* The values of time_: bare dates, and datetimes at midnight, within the
\* first minute of the day, and in the afternoon; those of the first day
\* come before every close of the calendar, or before all but the first.
Times ==
    {Date(d) : d \in 1 .. 3}
    \cup {DateTime(d, hms, tzname) :
            d \in 1 .. 3,
            hms \in {<<0, 0, 0>>, <<0, 0, 30>>, <<16, 30, 0>>},
            tzname \in {"EDT", "LMT"}}

InitAlpaca ==
    \E fs \in AlpacaDisks : InitOn(OtherSection :> [api_key |-> "x"], fs)

NextAlpaca ==
    \/ \E cache \in BOOLEAN, api \in ApiAnswers : GetCalendar(cache, api)
    \/ \E api \in ApiAnswers : GetCalendarDt(api)
    \/ \E time_ \in Times, extended_hours \in BOOLEAN, api \in ApiAnswers :
          GetLastClosingDate(time_, extended_hours, api)
    \/ DayTick

SpecAlpaca == InitAlpaca /\ [][NextAlpaca]_vars

\* A step that is a call of a method of Alpaca.
IsAlpacaCall(op) == alpacaCall'.op = op /\ alpacaCall'.seq # alpacaCall.seq

\* C12: get_calendar(cache=True), the remote API answering: when
\* calendar.json holds an expiration strictly after today, the saved list is
\* returned and no remote call is made; otherwise (the file expired or
\* missing) one remote call is made, its calendar is returned, and
\* calendar.json is left holding it with expiration today + 7 days.
C12_CalendarCache ==
    [][(/\ IsAlpacaCall("get_calendar")
        /\ alpacaCall'.cache
        /\ ~alpacaCall'.api.raised)
       => LET file_ == AlpacaCalendarJson IN
          IF /\ file_ \in DOMAIN disk
             /\ strptime_date(disk[file_].value.expiration) > today
          THEN /\ alpacaCall'.raised = None
               /\ alpacaCall'.returned = disk[file_].value.calendar
               /\ alpacaCall'.fetched = 0
          ELSE /\ alpacaCall'.raised = None
               /\ alpacaCall'.returned = alpacaCall'.api.value
               /\ alpacaCall'.fetched = 1
               /\ file_ \in DOMAIN disk'
               /\ disk'[file_] =
                    json_dump(CalendarArtifact(
                        isoformat(today + CalendarLifetime),
                        alpacaCall'.api.value))]_vars

\* The closing times of the entries of the remote calendar c.
Closings(c, extended_hours) ==
    {EntryDt(c.items[i])[ClosingField(extended_hours)] :
        i \in DOMAIN c.items}

\* C17: get_last_closing_date(time_, extended_hours), no calendar being
\* cached and the remote calendar being sorted by date and holding an entry
\* that closes strictly before time_, returns the date of the latest such
\* entry.
C17_LatestClosingBefore ==
    [][(/\ IsAlpacaCall("get_last_closing_date")
        /\ DOMAIN disk = {}
        /\ ~alpacaCall'.api.raised)
       => LET t == LookupTime(alpacaCall'.time_,
                              alpacaCall'.extended_hours)
              before == {c \in Closings(alpacaCall'.api.value,
                                        alpacaCall'.extended_hours) :
                            Before(c, t)}
          IN  before # {}
              => /\ alpacaCall'.raised = None
                 /\ \E c \in before :
                      /\ \A other \in before : ~Before(c, other)
                      /\ alpacaCall'.returned = Date(c.date)]_vars

\* C18: get_last_closing_date makes its lookup with 18:00:00 of the day
\* (23:59:59 with extended hours) when time_ is a bare date or a datetime
\* exactly at midnight, and with time_ itself when time_ is not at 00:00.
C18_MidnightReplaced ==
    [][(/\ IsAlpacaCall("get_last_closing_date")
        /\ ~alpacaCall'.api.raised)
       => LET time_ == alpacaCall'.time_
              closing == IF alpacaCall'.extended_hours
                         THEN <<23, 59, 59>> ELSE <<18, 0, 0>>
          IN  /\ time_.type = "date"
                 => /\ alpacaCall'.used.type = "datetime"
                    /\ alpacaCall'.used.date = time_.date
                    /\ alpacaCall'.used.hms = closing
              /\ (time_.type = "datetime" /\ time_.hms = <<0, 0, 0>>)
                 => alpacaCall'.used = [time_ EXCEPT !.hms = closing]
              /\ (time_.type = "datetime"
                  /\ ~(time_.hms[1] = 0 /\ time_.hms[2] = 0))
                 => alpacaCall'.used = time_]_vars

(***************************************************************************)
(* Tda: the market data client. A method works on a world: the cache       *)
(* files and directories, the TdaAuth it holds (credentials, credentials   *)
(* file, last token call), the HTTP requests it has issued and the seconds *)
(* it has slept. What it leaves is a world with what it raised or returned.*)
(***************************************************************************)
World(fs, ds, c, f, last) ==
    [disk |-> fs, dirs |-> ds, credentials |-> c, ini |-> f, call |-> last,
     requests |-> <<>>, slept |-> 0]

Raise(w, error, message) ==
    [disk |-> w.disk, dirs |-> w.dirs, credentials |-> w.credentials,
     ini |-> w.ini, call |-> w.call, requests |-> w.requests,
     slept |-> w.slept, raised |-> error, message |-> message,
     returned |-> NoneValue]

Return(w, value) ==
    [disk |-> w.disk, dirs |-> w.dirs, credentials |-> w.credentials,
     ini |-> w.ini, call |-> w.call, requests |-> w.requests,
     slept |-> w.slept, raised |-> None, message |-> "",
     returned |-> value]

\* The world after self.auth.get_access_token() made the call token.
Authorized(w, token) ==
    [w EXCEPT !.credentials = token.credentials, !.ini = token.ini,
              !.call = token.call]

\* The world after requests.get(url, ...).
Requested(w, request) == [w EXCEPT !.requests = Append(@, request)]

\* The world after save_data left the files and directories of saved.
Saved(w, saved) == [w EXCEPT !.disk = saved.disk, !.dirs = saved.dirs]

\* symbol.upper()
Symbols == {"aapl"}
upper(symbol) == IF symbol = "aapl" THEN "AAPL" ELSE symbol

\* What the token endpoint and the browser login answer during a call of a
\* Tda method.
TokenAnswers ==
    {[code_out |-> code_out, resp |-> resp] :
        code_out \in Codes \cup {None},
        resp \in {[raised |-> TRUE, json |-> <<>>],
                  [raised |-> FALSE,
                   json |-> Json(AccessMargin + 1, RefreshMargin + 2,
                                 <<"a1", "r1">>)]}}

\* headers = {'Authorization': self.auth.get_access_token()}
authorize(w, time_now, token) ==
    Authorized(w, get_access_token(w.credentials, w.ini, w.call, time_now,
                                   TRUE, TRUE, token.code_out, token.resp))

(***************************************************************************)
(* Tda.get_fundamental.                                                    *)
(***************************************************************************)
\* The days a fundamental artifact stays valid: timedelta(days=1)
FundamentalLifetime == 1

\* f"{self.data_dir}/{symbol}/fundamental.json"
FundamentalJson(symbol) ==
    [parent |-> <<"tda", symbol>>, name |-> <<"fundamental", ".json">>]

\* {'expiration': ..., 'fundamental': ...}
FundamentalArtifact(expiration, fundamental) ==
    [type |-> "dict", keytype |-> "str",
     keys |-> {"expiration", "fundamental"},
     expiration |-> expiration, fundamental |-> fundamental]

\* r.json()[symbol] of the instruments endpoint
Fundamental(cusip) ==
    [type |-> "dict", keytype |-> "str", keys |-> {"cusip"}, cusip |-> cusip]

\* The instruments endpoint's answers: the symbol's entry, an empty body for
\* a symbol it does not know, or an error status.
InstrumentAnswers ==
    {[status |-> 200,
      json |-> [type |-> "dict", keytype |-> "str", keys |-> {"AAPL"},
                values |-> [AAPL |-> Fundamental("037833100")]]],
     [status |-> 200, json |-> EmptyDict],
     [status |-> 404, json |-> EmptyDict]}

\* get_fundamental(symbol) at time_now on the date day
get_fundamental(w, time_now, day, symbol, token, answer) ==
    LET SYMBOL == upper(symbol)
        file_ == FundamentalJson(SYMBOL)
        \* lines 106-111
        save(w3, fundamental, saved) ==
            IF saved.raised # None
            THEN Raise(Saved(w3, saved), saved.raised, "")
            ELSE Return(Saved(w3, saved), fundamental)
        \* lines 95-105: check_requests(r, error_out=True), then the body
        check(w2, r) ==
            IF r.status # 200
            THEN Raise(w2, "RequestError", "status")
            ELSE IF ~NotEmpty(r.json)
            THEN Return(w2, NoneValue)
            ELSE save(w2, r.json.values[SYMBOL],
                      call_save_data(w2.disk, w2.dirs,
                        [file_ |-> file_,
                         data |-> FundamentalArtifact(
                                    isoformat(day + FundamentalLifetime),
                                    r.json.values[SYMBOL]),
                         input_data_type |-> "dict"]))
        \* lines 88-94
        request(w1) ==
            IF w1.call.raised # None
            THEN Raise(w1, w1.call.raised, "")
            ELSE check(Requested(w1, [endpoint |-> "instruments",
                                      symbol |-> SYMBOL]),
                       answer)
        \* lines 77-85
        load(loaded) ==
            IF loaded.raised # None
            THEN Raise(w, loaded.raised, "")
            ELSE IF /\ NotEmpty(loaded.value)
                    /\ day < strptime_date(loaded.value.expiration)
            THEN Return(w, loaded.value.fundamental)
            ELSE request(authorize(w, time_now, token))
    IN  load(call_load_data(w.disk, [file_ |-> file_,
                                     output_data_type |-> "dict"]))

(***************************************************************************)
(* Tda.get_price_history.                                                  *)
(***************************************************************************)
\* The seconds slept after a 429, and the value of rate_limit_counter at
\* which the loop gives up.
RateLimitSleep == 40
RateLimitStop == 2

\* One candle
Candle(c) == [datetime |-> c, close |-> c]

\* The answers of the price history endpoint.
Ok(candles) == [status |-> 200, candles |-> candles]
RateLimited == [status |-> 429, candles |-> <<>>]
ServerError == [status |-> 500, candles |-> <<>>]

\* The payload of lines 169-179
HistoryPayload(frequency_type, frequency, start_date, end_date) ==
    LET payload == [frequencyType |-> frequency_type,
                    frequency |-> frequency,
                    needExtendedHoursData |-> TRUE]
    IN  IF start_date # 0 /\ end_date # 0
        THEN payload @@ [startDate |-> start_date, endDate |-> end_date]
        ELSE payload @@ [periodType |-> "year", period |-> 20]

\* A variant of the loop that sleeps and asks again after every answer that
\* is not a 200.
RECURSIVE request_loop_RetryAll(_, _, _, _)
request_loop_RetryAll(w, request, answers, rate_limit_counter) ==
    LET asked(w1, r) ==
            IF r.status = 200
            THEN Return(w1, List(r.candles))
            ELSE request_loop_RetryAll(
                     [w1 EXCEPT !.slept = @ + RateLimitSleep],
                     request, answers, rate_limit_counter + 1)
    IN  IF rate_limit_counter = RateLimitStop
        THEN Raise(w, "RequestError", "Rate Limit Hit")
        ELSE asked(Requested(w, request), answers[rate_limit_counter + 1])
\* Lines 184-207: the loop, entered with rate_limit_counter 429s answered
\* before; answers are the endpoint's answers to the requests in turn.
RECURSIVE request_loop(_, _, _, _)
request_loop(w, request, answers, rate_limit_counter) ==
    LET asked(w1, r) ==
            IF r.status = 429
            THEN request_loop([w1 EXCEPT !.slept = @ + RateLimitSleep],
                              request, answers, rate_limit_counter + 1)
            ELSE IF r.status = 200
            THEN Return(w1, List(r.candles))
            ELSE Raise(w1, "RequestError", "status")
    IN  IF rate_limit_counter = RateLimitStop
        THEN Raise(w, "RequestError", "Rate Limit Hit")
        ELSE asked(Requested(w, request), answers[rate_limit_counter + 1])

\* get_price_history(symbol, frequency_type=, frequency=, start_date=,
\* end_date=) at time_now
get_price_history(w, time_now, symbol, payload, token, answers) ==
    LET request == [endpoint |-> "pricehistory", symbol |-> upper(symbol),
                    payload |-> payload]
        \* lines 168-207
        loop(w1) ==
            IF w1.call.raised # None
            THEN Raise(w1, w1.call.raised, "")
            ELSE request_loop(w1, request, answers, 0)
    IN  loop(authorize(w, time_now, token))

(***************************************************************************)
(* Tda.get_minute_quotes.                                                  *)
(***************************************************************************)
\* f"{self.data_dir}/{symbol}/{str(date)}-{frequency}minute.csv"
MinuteCsv(symbol, date, frequency) ==
    [parent |-> <<"tda", symbol>>,
     name |-> <<isoformat(date) \o "-" \o ToString(frequency) \o "minute",
                ".csv">>]

\* f"{file_}-NODATA"
NoData(file_) == [file_ EXCEPT !.name = Append(@, "-NODATA")]

\* int(time_.timestamp() * 1000)
convert_time_to_epoch_ms(time_) == Instant(time_) * 1000

\* pd.DataFrame(quotes)
DataFrame(quotes) ==
    [type |-> "DataFrame", index |-> "", columns |-> <<"datetime", "close">>,
     rows |-> Len(quotes.items)]

\* df_quotes after the appends: the frames of the days, in turn
Appended(parts) == [type |-> "DataFrame", parts |-> parts]

\* dt.datetime.now(tz).date, the method itself
DateMethod == [type |-> "builtin_function_or_method"]

\* Lines 300-358: the days still to handle, parts being the frames appended
\* so far; q holds what stays the same from day to day.
RECURSIVE minute_days(_, _, _, _)
minute_days(w, parts, days, q) ==
    LET day == Head(days)
        date == day.session_open.date
        file_ == MinuteCsv(q.symbol, date, q.frequency)
        file_no_data == NoData(file_)
        continue(w4, parts4) == minute_days(w4, parts4, Tail(days), q)
        \* lines 350-358
        keep(w3, df_quote, saved) ==
            IF saved.raised # None
            THEN Raise(Saved(w3, saved), saved.raised, "")
            ELSE continue(Saved(w3, saved),
                          Append(parts, [date |-> date, df |-> df_quote]))
        \* lines 337-342
        mark(w3, saved) ==
            IF saved.raised # None
            THEN Raise(Saved(w3, saved), saved.raised, "")
            ELSE continue(Saved(w3, saved), parts)
        \* lines 336-358
        fetch(quotes) ==
            IF quotes.raised # None
            THEN quotes
            ELSE IF Len(quotes.returned.items) = 0
            THEN mark(quotes,
                      call_save_data(quotes.disk, quotes.dirs,
                        [file_ |-> file_no_data, data |-> StrNone,
                         input_data_type |-> "NONE"]))
            ELSE IF Date(date) # DateMethod
            THEN keep(quotes, DataFrame(quotes.returned),
                      call_save_data(quotes.disk, quotes.dirs,
                        [file_ |-> file_,
                         data |-> DataFrame(quotes.returned),
                         input_data_type |-> "df", index |-> FALSE]))
            ELSE continue(quotes,
                          Append(parts, [date |-> date,
                                         df |-> DataFrame(quotes.returned)]))
        \* lines 316-333
        load(df_quote) ==
            IF df_quote.raised # None
            THEN Raise(w, df_quote.raised, "")
            ELSE IF ~FrameEmpty(df_quote.value)
            THEN continue(w, Append(parts, [date |-> date,
                                            df |-> df_quote.value]))
            ELSE fetch(get_price_history(w, q.time_now, q.symbol,
                         HistoryPayload("minute", q.frequency,
                            convert_time_to_epoch_ms(day.session_open),
                            convert_time_to_epoch_ms(day.session_close)),
                         q.token, q.history[date]))
    IN  IF days = <<>>
        THEN Return(w, Appended(parts))
        ELSE IF file_no_data \in DOMAIN w.disk
        THEN continue(w, parts)
        ELSE load(call_load_data(w.disk, [file_ |-> file_,
                                          output_data_type |-> "df"]))

\* get_minute_quotes(symbol, start_day, end_day, frequency) at time_now on
\* the date day, of a client whose calendar is calendar
get_minute_quotes(w, time_now, day, calendar, symbol, start_day, end_day, frequency, token, answer, history) ==
    LET SYMBOL == upper(symbol)
        first == IF start_day = NoneValue THEN end_day.date - 365
                 ELSE start_day.date
        \* lines 293-296
        business_days ==
            SelectSeq(calendar.items,
                      LAMBDA cal : /\ cal.session_open.date >= first
                                   /\ cal.session_open.date <= end_day.date)
        \* lines 283-300
        exists(fundamental) ==
            IF fundamental.raised # None
            THEN fundamental
            ELSE IF ~NotEmpty(fundamental.returned)
            THEN Raise(fundamental, "ValueError", "")
            ELSE minute_days(fundamental, <<>>, business_days,
                             [symbol |-> SYMBOL, frequency |-> frequency,
                              time_now |-> time_now, token |-> token,
                              history |-> history])
    IN  exists(get_fundamental(w, time_now, day, SYMBOL, token, answer))

(***************************************************************************)
(* Tda.get_daily_quotes.                                                   *)
(***************************************************************************)
\* f"{self.data_dir}/{symbol}/daily.csv"
DailyQuotesCsv(symbol) ==
    [parent |-> <<"tda", symbol>>, name |-> <<"daily", ".csv">>]

\* time_=dt.datetime.now(tz) in the signature of get_last_closing_date: the
\* default is the clock at the moment the def statement ran, when the module
\* was imported, on the first day.
ImportTime == DateTime(1, <<9, 30, 0>>, "EDT")

\* dt.datetime.fromtimestamp(df_quotes['datetime'].tail(1).values[0] / 1000)
\* .date(): the daily candles are those of the days from day 1 on, one a
\* day, so that the last of n is that of day n.
LastCandleDate(df_quotes) == Date(df_quotes.rows)

\* get_daily_quotes(symbol, cache) at time_now on the date day; api is what
\* the calendar API answers to self.alpaca
get_daily_quotes(w, time_now, day, symbol, cache, token, answer, answers, api) ==
    LET SYMBOL == upper(symbol)
        file_ == DailyQuotesCsv(SYMBOL)
        \* lines 246-253
        save(w3, df_quotes, saved) ==
            IF saved.raised # None
            THEN Raise(Saved(w3, saved), saved.raised, "")
            ELSE Return(Saved(w3, saved), df_quotes)
        \* lines 236-250
        history(quotes) ==
            IF quotes.raised # None
            THEN quotes
            ELSE IF Len(quotes.returned.items) = 0
            THEN Return(quotes, EmptyFrame)
            ELSE save(quotes, DataFrame(quotes.returned),
                      call_save_data(quotes.disk, quotes.dirs,
                        [file_ |-> file_,
                         data |-> DataFrame(quotes.returned),
                         input_data_type |-> "df", index |-> FALSE]))
        \* lines 232-236
        exists(fundamental) ==
            IF fundamental.raised # None
            THEN fundamental
            ELSE IF ~NotEmpty(fundamental.returned)
            THEN Raise(fundamental, "ValueError", "")
            ELSE history(get_price_history(fundamental, time_now, SYMBOL,
                                           HistoryPayload("daily", 1, 0, 0),
                                           token, answers))
        fetch(w1) == exists(get_fundamental(w1, time_now, day, SYMBOL, token,
                                            answer))
        \* lines 225-230
        compare(df_quotes, closing) ==
            IF closing.raised # None
            THEN Raise(Saved(w, closing), closing.raised, "")
            ELSE IF LastCandleDate(df_quotes) = closing.returned
            THEN Return(Saved(w, closing), df_quotes)
            ELSE fetch(Saved(w, closing))
        \* lines 218-223
        load(loaded) ==
            IF loaded.raised # None
            THEN Raise(w, loaded.raised, "")
            ELSE IF FrameEmpty(loaded.value)
            THEN fetch(w)
            ELSE IF \A i \in DOMAIN loaded.value.columns :
                        loaded.value.columns[i] # "datetime"
            THEN Raise(w, "KeyError", "datetime")
            ELSE compare(loaded.value,
                         get_last_closing_date(w.disk, w.dirs, day, api,
                                               ImportTime, TRUE))
    IN  IF cache
        THEN load(call_load_data(w.disk, [file_ |-> file_,
                                          output_data_type |-> "df"]))
        ELSE fetch(w)

(***************************************************************************)
(* A Tda client: its TdaAuth built on a credentials file that holds a code *)
(* and a token pair, its calendar holding two business days, its data      *)
(* directory empty or holding files saved earlier.                         *)
(***************************************************************************)
\* self.calendar
TdaCalendar ==
    List(<<EntryDt(RawDay(1, <<16, 0>>)), EntryDt(RawDay(2, <<16, 0>>))>>)
BusinessDates == {1, 2}

\* The price history endpoint's answers to the requests of one call, in
\* turn.
HistoryAnswers ==
    {<<a, b, c>> : a \in {Ok(<<Candle(1)>>), RateLimited},
                   b \in {Ok(<<Candle(2)>>), RateLimited},
                   c \in {Ok(<<Candle(3)>>), RateLimited}}
    \cup {<<Ok(<<>>), Ok(<<>>), Ok(<<>>)>>,
          <<ServerError, Ok(<<Candle(2)>>), Ok(<<Candle(3)>>)>>,
          <<RateLimited, ServerError, Ok(<<Candle(3)>>)>>}

\* The answers for each business day: candles every day, none on any day,
\* none on the first day only.
Histories ==
    {[d \in BusinessDates |-> <<Ok(<<Candle(d)>>), Ok(<<>>), Ok(<<>>)>>],
     [d \in BusinessDates |-> <<Ok(<<>>), Ok(<<>>), Ok(<<>>)>>],
     [d \in BusinessDates |->
        IF d = 1 THEN <<Ok(<<>>), Ok(<<>>), Ok(<<>>)>>
        ELSE <<Ok(<<Candle(d)>>), Ok(<<>>), Ok(<<>>)>>]}

SavedFundamental ==
    FundamentalJson("AAPL") :>
        json_dump(FundamentalArtifact(isoformat(2), Fundamental("saved")))

TdaDisks ==
    {<<>>,
     SavedFundamental,
     SavedFundamental
     @@ (NoData(MinuteCsv("AAPL", 1, 1)) :> [format |-> "text"]),
     SavedFundamental
     @@ (MinuteCsv("AAPL", 1, 1) :> to_csv(DateFrame))
     @@ (NoData(MinuteCsv("AAPL", 1, 1)) :> [format |-> "text"])}

\* What a call of a method of Tda leaves in the state.
TdaReturns(op, args, got) ==
    /\ tdaCall' = [op |-> op, seq |-> 1 - tdaCall.seq, args |-> args,
                   raised |-> got.raised, message |-> got.message,
                   returned |-> got.returned, requests |-> got.requests,
                   slept |-> got.slept]
    /\ disk' = got.disk
    /\ dirs' = got.dirs
    /\ credentials' = got.credentials
    /\ ini' = got.ini
    /\ call' = got.call
    /\ UNCHANGED <<now, credCall, dataCall, today, alpacaCall, botVars,
                   auxVars, indVars>>

\* get_code is asked for a code only when none is held
TokenAnswersNow ==
    {token \in TokenAnswers :
        Truthy(credentials["code"]) => token.code_out = None}

GetFundamental(symbol, token, answer) ==
    TdaReturns("get_fundamental",
               [symbol |-> symbol, token |-> token, answer |-> answer],
               get_fundamental(World(disk, dirs, credentials, ini, call),
                               now, today, symbol, token, answer))

GetPriceHistory(symbol, token, answers) ==
    TdaReturns("get_price_history",
               [symbol |-> symbol, token |-> token, answers |-> answers],
               get_price_history(World(disk, dirs, credentials, ini, call),
                                 now, symbol,
                                 HistoryPayload("daily", 1, 0, 0),
                                 token, answers))

GetMinuteQuotes(symbol, start_day, end_day, frequency, token, answer, history) ==
    TdaReturns("get_minute_quotes",
               [symbol |-> symbol, start_day |-> start_day,
                end_day |-> end_day, frequency |-> frequency,
                token |-> token, answer |-> answer, history |-> history],
               get_minute_quotes(World(disk, dirs, credentials, ini, call),
                                 now, today, TdaCalendar, symbol, start_day,
                                 end_day, frequency, token, answer, history))

\* What the price history endpoint answers to a request for the daily
\* candles: those of the first day, of both days, none, or a 429 first
DailyAnswers ==
    {<<Ok(<<Candle(1)>>), Ok(<<>>), Ok(<<>>)>>,
     <<Ok(<<Candle(1), Candle(2)>>), Ok(<<>>), Ok(<<>>)>>,
     <<Ok(<<>>), Ok(<<>>), Ok(<<>>)>>,
     <<RateLimited, Ok(<<Candle(1)>>), Ok(<<>>)>>}

GetDailyQuotes(symbol, cache, token, answer, answers, api) ==
    TdaReturns("get_daily_quotes",
               [symbol |-> symbol, cache |-> cache, token |-> token,
                answer |-> answer, answers |-> answers, api |-> api],
               get_daily_quotes(World(disk, dirs, credentials, ini, call),
                                now, today, symbol, cache, token, answer,
                                answers, api))

InitTda ==
    \E fs \in TdaDisks :
        InitOn((TdaSection :> (StoredUser @@ StoredTokens))
               @@ (OtherSection :> [api_key |-> "x"]),
               fs)

NextTda ==
    \/ \E symbol \in Symbols, token \in TokenAnswersNow,
          answer \in InstrumentAnswers :
            GetFundamental(symbol, token, answer)
    \/ \E symbol \in Symbols, token \in TokenAnswersNow,
          answers \in HistoryAnswers :
            GetPriceHistory(symbol, token, answers)
    \/ \E symbol \in Symbols,
          start_day \in {NoneValue} \cup {Date(d) : d \in BusinessDates},
          end_day \in {Date(d) : d \in BusinessDates},
          frequency \in {1}, token \in TokenAnswersNow,
          answer \in InstrumentAnswers, history \in Histories :
            GetMinuteQuotes(symbol, start_day, end_day, frequency, token,
                            answer, history)
    \/ DayTick

SpecTda == InitTda /\ [][NextTda]_vars

\* The three methods that read quotes and fundamentals, on a client whose
\* data directory is empty, or holds the fundamental of the symbol, or holds
\* it with the daily candles up to the first day.
DailyDisks ==
    {<<>>,
     SavedFundamental,
     SavedFundamental
     @@ (DailyQuotesCsv("AAPL") :> to_csv(DataFrame(List(<<Candle(1)>>))))}

InitDaily ==
    \E fs \in DailyDisks :
        InitOn((TdaSection :> (StoredUser @@ StoredTokens))
               @@ (OtherSection :> [api_key |-> "x"]),
               fs)

NextDaily ==
    \/ \E symbol \in Symbols, cache \in BOOLEAN, token \in TokenAnswersNow,
          answer \in InstrumentAnswers, answers \in DailyAnswers,
          api \in ApiAnswers :
            GetDailyQuotes(symbol, cache, token, answer, answers, api)
    \/ \E symbol \in Symbols, token \in TokenAnswersNow,
          answer \in InstrumentAnswers :
            GetFundamental(symbol, token, answer)
    \/ \E symbol \in Symbols, end_day \in {Date(d) : d \in BusinessDates},
          token \in TokenAnswersNow, answer \in InstrumentAnswers,
          history \in Histories :
            GetMinuteQuotes(symbol, NoneValue, end_day, 1, token, answer,
                            history)
    \/ DayTick

SpecDaily == InitDaily /\ [][NextDaily]_vars

\* A step that is a call of a method of Tda.
IsTdaCall(op) == tdaCall'.op = op /\ tdaCall'.seq # tdaCall.seq

\* The token call a method would make in this state succeeds.
TokenGranted(token) ==
    get_access_token(credentials, ini, call, now, TRUE, TRUE,
                     token.code_out, token.resp).call.raised = None

\* C13: get_fundamental(symbol): when <SYMBOL>/fundamental.json holds an
\* expiration strictly after today, the saved fundamental is returned with
\* no HTTP request and no token request; otherwise, the token being granted,
\* the endpoint is asked once, a status other than 200 raises, and an entry
\* for the symbol is returned after fundamental.json was written with
\* expiration today + 1 day.
C13_FundamentalCacheThenFetch ==
    [][IsTdaCall("get_fundamental")
       => LET SYMBOL == upper(tdaCall'.args.symbol)
              file_ == FundamentalJson(SYMBOL)
              answer == tdaCall'.args.answer
          IN  IF /\ file_ \in DOMAIN disk
                 /\ strptime_date(disk[file_].value.expiration) > today
              THEN /\ tdaCall'.raised = None
                   /\ tdaCall'.returned = disk[file_].value.fundamental
                   /\ tdaCall'.requests = <<>>
                   /\ call' = call
              ELSE TokenGranted(tdaCall'.args.token)
                   => /\ Len(tdaCall'.requests) = 1
                      /\ answer.status # 200
                         => tdaCall'.raised = "RequestError"
                      /\ (answer.status = 200 /\ NotEmpty(answer.json))
                         => /\ tdaCall'.raised = None
                            /\ tdaCall'.returned = answer.json.values[SYMBOL]
                            /\ file_ \in DOMAIN disk'
                            /\ disk'[file_] =
                                 json_dump(FundamentalArtifact(
                                    isoformat(today + FundamentalLifetime),
                                    answer.json.values[SYMBOL]))]_vars

\* C14: get_price_history, the token being granted: when the first two
\* answers are 429 and the third is 200, the call makes three requests and
\* returns the candles of the third; it fails with the rate limit error
\* exactly when the first three answers are all 429.
C14_TwoRetries ==
    [][(IsTdaCall("get_price_history") /\ call'.raised = None)
       => LET answers == tdaCall'.args.answers
              limited(i) == answers[i].status = 429
          IN  /\ (limited(1) /\ limited(2) /\ answers[3].status = 200)
                 => /\ tdaCall'.raised = None
                    /\ tdaCall'.returned = List(answers[3].candles)
                    /\ Len(tdaCall'.requests) = 3
              /\ (tdaCall'.raised = "RequestError"
                  /\ tdaCall'.message = "Rate Limit Hit")
                 <=> (limited(1) /\ limited(2) /\ limited(3))]_vars

\* The business days of the client's calendar from start_day to end_day.
DaysInRange(args) ==
    {d \in BusinessDates :
        /\ args.start_day # NoneValue => args.start_day.date <= d
        /\ d <= args.end_day.date}

\* The remote side answers a run with these arguments: the symbol is known,
\* the token endpoint answers, the price history answers 200 for every day.
RemoteAnswers(args) ==
    /\ args.answer.status = 200
    /\ NotEmpty(args.answer.json)
    /\ ~args.token.resp.raised
    /\ \A d \in BusinessDates : args.history[d][1].status = 200

\* C15: of two runs of get_minute_quotes in a row with the same symbol, range
\* and frequency, the remote side answering the first: every business day
\* of the range for which the remote side had no candles has its marker
\* '<file>-NODATA' on disk after the first run, and the second run makes no
\* price history request for that day.
C15_NoDataMarkerStopsRefetch ==
    [][(/\ tdaCall.op = "get_minute_quotes"
        /\ IsTdaCall("get_minute_quotes")
        /\ tdaCall'.args.symbol = tdaCall.args.symbol
        /\ tdaCall'.args.start_day = tdaCall.args.start_day
        /\ tdaCall'.args.end_day = tdaCall.args.end_day
        /\ tdaCall'.args.frequency = tdaCall.args.frequency
        /\ RemoteAnswers(tdaCall.args))
       => \A d \in DaysInRange(tdaCall.args) :
            tdaCall.args.history[d][1].candles = <<>>
            => /\ NoData(MinuteCsv(upper(tdaCall.args.symbol), d,
                                   tdaCall.args.frequency))
                  \in DOMAIN disk
               /\ \A i \in DOMAIN tdaCall'.requests :
                    tdaCall'.requests[i].endpoint = "pricehistory"
                    => tdaCall'.requests[i].payload.startDate
                       # convert_time_to_epoch_ms(
                            DateTime(d, <<0, 0, 1>>, "LMT"))]_vars

\* C16: a run of get_minute_quotes whose range holds today's date writes no
\* '<SYMBOL>/<today>-<frequency>minute.csv', and, the remote side answering
\* with candles for today, returns a frame that holds today's quotes.
C16_TodayNotPersisted ==
    [][(/\ IsTdaCall("get_minute_quotes")
        /\ today \in DaysInRange(tdaCall'.args)
        /\ TokenGranted(tdaCall'.args.token)
        /\ RemoteAnswers(tdaCall'.args)
        /\ tdaCall'.args.history[today][1].candles # <<>>)
       => LET args == tdaCall'.args
              file_ == MinuteCsv(upper(args.symbol), today, args.frequency)
          IN  /\ file_ \notin DOMAIN disk'
              /\ tdaCall'.raised = None
              /\ \E i \in DOMAIN tdaCall'.returned.parts :
                   /\ tdaCall'.returned.parts[i].date = today
                   /\ tdaCall'.returned.parts[i].df =
                        DataFrame(List(args.history[today][1].candles))]_vars

\* The answers among the first n that are a 429
RateLimitedAmong(answers, n) ==
    Cardinality({i \in 1 .. n : answers[i].status = 429})

\* C29: get_price_history, the token being granted, ends after one to three
\* requests; every request but the last was answered 429 and each 429 is
\* followed by 40 seconds of sleep and nothing else is slept; a last answer
\* of 200 returns its candles; a last answer that is neither 200 nor 429
\* raises RequestError; no request follows such an answer. get_fundamental
\* makes at most one request and never sleeps; get_minute_quotes sleeps only
\* in a call that asked for a price history.
C29_OnlyRetryLoop ==
    [][/\ (IsTdaCall("get_price_history")
            /\ TokenGranted(tdaCall'.args.token))
           => LET answers == tdaCall'.args.answers
                  n == Len(tdaCall'.requests)
              IN  /\ n \in 1 .. 3
                  /\ \A i \in 1 .. (n - 1) : answers[i].status = 429
                  /\ tdaCall'.slept
                       = RateLimitSleep * RateLimitedAmong(answers, n)
                  /\ answers[n].status = 200
                     => /\ tdaCall'.raised = None
                        /\ tdaCall'.returned = List(answers[n].candles)
                  /\ answers[n].status # 200
                     => tdaCall'.raised = "RequestError"
       /\ IsTdaCall("get_fundamental")
           => /\ tdaCall'.slept = 0
              /\ Len(tdaCall'.requests) <= 1
       /\ (IsTdaCall("get_minute_quotes") /\ tdaCall'.slept > 0)
           => \E i \in DOMAIN tdaCall'.requests :
                 tdaCall'.requests[i].endpoint = "pricehistory"]_vars

\* A call that was limited once, slept, asked again and returned the candles
\* of the second answer.
C29_Witness ==
    /\ tdaCall.op = "get_price_history"
    /\ Len(tdaCall.requests) = 2
    /\ tdaCall.slept = RateLimitSleep
    /\ tdaCall.raised = None
    /\ tdaCall.returned = List(<<Candle(2)>>)

\* The requests of a call that ask for the price history of the day d
AskedFor(requests, d) ==
    {i \in DOMAIN requests :
        /\ requests[i].endpoint = "pricehistory"
        /\ requests[i].payload.startDate
             = convert_time_to_epoch_ms(DateTime(d, <<0, 0, 1>>, "LMT"))}

\* The file holds a frame of quotes that is not empty.
HoldsQuotes(fs, file_) ==
    /\ file_ \in DOMAIN fs
    /\ read_csv(fs[file_]).raised = None
    /\ ~FrameEmpty(read_csv(fs[file_]).value)

\* C30: get_minute_quotes(symbol, start_day, end_day) with a valid
\* fundamental.json of the symbol: a business day of the range with a cached
\* quote file that is not empty has the quotes of the file in the result and
\* no request is made for it, also when its marker exists; a day with a
\* marker and no quote file is left out of the result without a request.
C30_CachedFileFirst ==
    [][(/\ IsTdaCall("get_minute_quotes")
        /\ FundamentalJson(upper(tdaCall'.args.symbol)) \in DOMAIN disk
        /\ strptime_date(disk[FundamentalJson(upper(tdaCall'.args.symbol))]
                            .value.expiration) > today)
       => LET args == tdaCall'.args
              file_(d) == MinuteCsv(upper(args.symbol), d, args.frequency)
          IN  \A d \in DaysInRange(args) :
                /\ HoldsQuotes(disk, file_(d))
                   => /\ tdaCall'.raised = None
                      /\ \E i \in DOMAIN tdaCall'.returned.parts :
                            /\ tdaCall'.returned.parts[i].date = d
                            /\ tdaCall'.returned.parts[i].df
                                 = read_csv(disk[file_(d)]).value
                      /\ AskedFor(tdaCall'.requests, d) = {}
                /\ (file_(d) \notin DOMAIN disk
                    /\ NoData(file_(d)) \in DOMAIN disk)
                   => /\ AskedFor(tdaCall'.requests, d) = {}
                      /\ tdaCall'.raised = None
                         => \A i \in DOMAIN tdaCall'.returned.parts :
                               tdaCall'.returned.parts[i].date # d]_vars

(***************************************************************************)
(* Chat relay: RocketChatBot on its websocket.                             *)
(***************************************************************************)
\* The section of the credentials file the relay logs in with
BotSection == "APN RocketChat"
BotCredentials ==
    [username |-> "bot", password |-> "secret", url |-> "chat.example"]

\* RocketChatBot(channels=...): one channel, or the two of the main program
ChannelLists == {<<"id-finance">>, TwoChannels}

\* json.dumps(obj): the text of the object
json_dumps(obj) == [format |-> "json", value |-> obj]

\* str(random.randint(1, 1000))
RandomIds == {"1", "1000"}

\* start_connection
start_connection(out) ==
    Append(out, json_dumps([msg |-> "connect", version |-> "1",
                            support |-> <<"1">>]))

\* send_login: the password goes as its SHA-256 digest
send_login(out, connection_num) ==
    Append(out,
           json_dumps([msg |-> "method", method |-> "login",
                       id |-> connection_num,
                       params |->
                         <<[user |-> [username |-> BotCredentials.username],
                            password |->
                              [digest |-> <<"sha256",
                                            BotCredentials.password>>,
                               algorithm |-> "sha-256"]]>>]))

\* subscribe_to_channel: one subscription for each channel id, in order
RECURSIVE subscribe_to_channel(_, _, _)
subscribe_to_channel(out, ids_left, sub_ids) ==
    IF ids_left = <<>> THEN out
    ELSE subscribe_to_channel(
             Append(out,
                    json_dumps([msg |-> "sub", id |-> Head(sub_ids),
                                name |-> "stream-room-messages",
                                params |-> <<Head(ids_left), FALSE>>])),
             Tail(ids_left), Tail(sub_ids))

\* on_open
on_open(out, ids, connection_num, sub_ids) ==
    subscribe_to_channel(send_login(start_connection(out), connection_num),
                         ids, sub_ids)

\* The text of a pong
Pong == json_dumps([msg |-> "pong"])

\* A variant of on_ping that answers nothing.
on_ping_Silent(out) == out
\* on_ping: self.ws.send(json.dumps({'msg': 'pong'}))
on_ping(out) == Append(out, Pong)

\* A text is the sequence of its characters.
\* msg.split(' '): the pieces between the spaces, the empty ones included
RECURSIVE split(_)
split(text) ==
    IF \A i \in DOMAIN text : text[i] # " " THEN <<text>>
    ELSE LET i == CHOOSE k \in DOMAIN text :
                      /\ text[k] = " "
                      /\ \A j \in 1 .. (k - 1) : text[j] # " "
         IN  <<SubSeq(text, 1, i - 1)>>
                 \o split(SubSeq(text, i + 1, Len(text)))

Digits == {"0", "1", "2", "3", "4", "5", "6", "7", "8", "9"}

\* re.match(r'^\$\D+', word): a dollar sign, then a character that is no digit
re_match(word) ==
    /\ Len(word) > 1
    /\ word[1] = "$"
    /\ word[2] \notin Digits

\* ticker.strip(r'\$'): the backslashes and dollar signs at both ends go
StripChars == {"\\", "$"}
strip(word) ==
    LET kept == {i \in DOMAIN word : word[i] \notin StripChars} IN
    IF kept = {} THEN <<>>
    ELSE SubSeq(word, CHOOSE i \in kept : \A j \in kept : i <= j,
                      CHOOSE i \in kept : \A j \in kept : j <= i)

\* list(set(tickers)): the words that differ, compared as they are written
set(words) == {words[i] : i \in DOMAIN words}

\* The processes started: for each ticker, how many were started for it.
\* One is started for each word of the set, in an order the set decides.
Processes(words) ==
    [ticker \in {strip(word) : word \in words} |->
        Cardinality({word \in words : strip(word) = ticker})]
NoProcess == Processes({})

\* What a call of on_message leaves behind
BotResult(raised, spawned, out) ==
    [raised |-> raised, spawned |-> spawned, sent |-> out]

\* The loop over the tickers: args holds self.channel_ids[1], the second id
start_processes(ids, out, words) ==
    IF words = {} THEN BotResult(None, NoProcess, out)
    ELSE IF Len(ids) < 2 THEN BotResult("IndexError", NoProcess, out)
    ELSE BotResult(None, Processes(words), out)

\* on_message
on_message(ids, out, frame) ==
    LET dispatch(message) ==
            IF "msg" \in DOMAIN message /\ message.msg = "ping"
            THEN BotResult(None, NoProcess, on_ping(out))
            ELSE IF /\ "msg" \in DOMAIN message
                    /\ "collection" \in DOMAIN message
                    /\ message.collection = "stream-room-messages"
            THEN start_processes(
                     ids, out,
                     set(SelectSeq(split(message.fields.args[1].msg),
                                   re_match)))
            ELSE BotResult(None, NoProcess, out)
        loaded(json) ==
            IF json.raised # None
            THEN BotResult(json.raised, NoProcess, out)
            ELSE dispatch(json.value)
    IN  loaded(json_loads(frame))

\* The words of the room messages, and the messages of that many words
Words ==
    {<<"$", "a">>, <<"$", "A">>, <<"h">>, <<"$", "1">>, <<"$">>}
MaxWords == 2

RECURSIVE join(_)
join(words) ==
    IF words = <<>> THEN <<>>
    ELSE IF Len(words) = 1 THEN words[1]
    ELSE words[1] \o <<" ">> \o join(Tail(words))

Texts == {join(words) : words \in UNION {[1 .. n -> Words] : n \in 0 .. MaxWords}}

\* The events of the server
Ping == [msg |-> "ping"]
RoomMessage(text) ==
    [msg |-> "changed", collection |-> "stream-room-messages",
     fields |-> [args |-> <<[msg |-> text]>>]]
Frames ==
    {json_dumps(Ping),
     json_dumps([server_id |-> "0"]),
     json_dumps([msg |-> "connected", session |-> "s"]),
     json_dumps([msg |-> "added", collection |-> "users"]),
     [format |-> "text", value |-> NoneValue]}
    \cup {json_dumps(RoomMessage(text)) : text \in Texts}

IsPing(frame) ==
    /\ frame.format = "json"
    /\ "msg" \in DOMAIN frame.value
    /\ frame.value.msg = "ping"

\* The pings the relay is sent
MaxPings == 2

BotReturns(op, frame, got) ==
    /\ botCall' = [op |-> op, seq |-> 1 - botCall.seq, frame |-> frame,
                   raised |-> got.raised, spawned |-> got.spawned]
    /\ sent' = got.sent
    /\ pings' = IF op = "on_message" /\ IsPing(frame) THEN pings + 1
                ELSE pings
    /\ UNCHANGED <<now, credentials, ini, call, credCall, disk, dirs,
                   dataCall, clientVars, channel_ids, auxVars, indVars>>

\* The websocket opens once, before any event comes.
OnOpen ==
    /\ sent = <<>>
    /\ \E connection_num \in RandomIds,
          sub_ids \in [1 .. Len(channel_ids) -> RandomIds] :
          BotReturns("on_open", json_dumps([msg |-> "open"]),
                     BotResult(None, NoProcess,
                               on_open(sent, channel_ids, connection_num,
                                       sub_ids)))

OnMessage ==
    /\ sent # <<>>
    /\ \E frame \in Frames :
          /\ IsPing(frame) => pings < MaxPings
          /\ BotReturns("on_message", frame,
                        on_message(channel_ids, sent, frame))

\* The credentials file holds the section of the relay.
InitBot ==
    /\ now = 0
    /\ ini = (CredFile :> (BotSection :> BotCredentials))
    /\ credentials = TdaAuthInit(ini)
    /\ call = NoCall
    /\ credCall = NoCredCall
    /\ disk = <<>>
    /\ dirs = {}
    /\ dataCall = NoDataCall
    /\ today = 1
    /\ alpacaCall = NoAlpacaCall
    /\ tdaCall = NoTdaCall
    /\ channel_ids \in ChannelLists
    /\ pings = 0
    /\ sent = <<>>
    /\ botCall = NoBotCall
    /\ InitAux

NextBot == OnOpen \/ OnMessage

SpecBot == InitBot /\ [][NextBot]_vars

(***************************************************************************)
(* Chat relay: properties.                                                 *)
(***************************************************************************)
\* A step that is a call of on_message.
IsOnMessage == botCall'.seq # botCall.seq /\ botCall'.op = "on_message"

IsRoomMessage(frame) ==
    /\ frame.format = "json"
    /\ "msg" \in DOMAIN frame.value
    /\ frame.value.msg # "ping"
    /\ "collection" \in DOMAIN frame.value
    /\ frame.value.collection = "stream-room-messages"

\* symbol.upper(), on the characters of the relay's tickers
UpperChar(c) == IF c = "a" THEN "A" ELSE c
Upper(word) == [i \in DOMAIN word |-> UpperChar(word[i])]

\* The tickers named in a text, each once whatever its case
TickersIn(text) ==
    LET words == split(text) IN
    {Upper(strip(words[i])) : i \in {k \in DOMAIN words : re_match(words[k])}}

\* The number of processes a call started
RECURSIVE Started(_)
Started(spawned) ==
    IF DOMAIN spawned = {} THEN 0
    ELSE LET ticker == CHOOSE t \in DOMAIN spawned : TRUE IN
         spawned[ticker]
           + Started([t \in DOMAIN spawned \ {ticker} |-> spawned[t]])

\* C19: on a room message, a relay of two channels starts exactly one
\* process for each ticker the message names, two spellings that differ only
\* in case counting as one ticker, and none for a message naming no ticker.
C19_OneProcessPerTicker ==
    [][(IsOnMessage /\ IsRoomMessage(botCall'.frame) /\ Len(channel_ids) > 1)
       => /\ botCall'.raised = None
          /\ Started(botCall'.spawned)
               = Cardinality(TickersIn(
                     botCall'.frame.value.fields.args[1].msg))
          /\ {Upper(ticker) : ticker \in DOMAIN botCall'.spawned}
               = TickersIn(botCall'.frame.value.fields.args[1].msg)]_vars

\* C21: on_message never fails on a well-formed room message, whatever the
\* number of channels the relay subscribed to, and the work of every ticker
\* the message names is started, whatever became of the processes started
\* before.
C21_RoomMessageNeverFails ==
    [][(IsOnMessage /\ IsRoomMessage(botCall'.frame))
       => /\ botCall'.raised = None
          /\ \A ticker \in TickersIn(botCall'.frame.value.fields.args[1].msg) :
                \E started \in DOMAIN botCall'.spawned :
                    Upper(started) = ticker]_vars

\* The pongs among the messages sent
Pongs(out) == Cardinality({i \in DOMAIN out : out[i] = Pong})

\* C20: a call of on_message on a keep-alive ping sends exactly one pong on
\* the websocket, after what was sent before, raises nothing and starts no
\* process; and at every moment the pongs sent are as many as the pings
\* received.
C20_PongPerPing ==
    /\ [](Pongs(sent) = pings)
    /\ [][(IsOnMessage /\ IsPing(botCall'.frame))
          => /\ sent' = Append(sent, Pong)
             /\ botCall'.raised = None
             /\ botCall'.spawned = NoProcess]_vars

\* The relay has just answered its second ping.
C20_Witness ==
    /\ botCall.op = "on_message"
    /\ IsPing(botCall.frame)
    /\ pings = 2
    /\ Pongs(sent) = 2
    /\ Len(sent) > 2

(***************************************************************************)
(* FiddyHelper.check_requests.                                             *)
(***************************************************************************)
\* A response: the method and URL of its request, and its status
Response(method, url, status_code) ==
    [method |-> method, url |-> url, status_code |-> status_code]

\* f"{r.request.method} to {r.request.url} returned {r.status_code}"
RequestMessage(r) ==
    r.method \o " to " \o r.url \o " returned " \o ToString(r.status_code)

\* check_requests(r, error_out)
check_requests(r, error_out) ==
    IF r.status_code # 200
    THEN IF error_out
         THEN [raised |-> "RequestError", message |-> RequestMessage(r),
               returned |-> None]
         ELSE [raised |-> None, message |-> "",
               returned |-> <<FALSE, RequestMessage(r)>>]
    ELSE [raised |-> None, message |-> "",
          returned |-> <<TRUE, RequestMessage(r)>>]

\* The responses checked: both methods, the URLs of the three services, and
\* statuses inside and outside 200-299.
Methods == {"GET", "POST"}
Urls ==
    {"https://api.tdameritrade.com/v1/instruments",
     "https://api.robinhood.com/oauth2/token/",
     "https://chat.example/api/v1/login"}
Statuses == {200, 201, 204, 299, 301, 400, 404, 429, 500}

CheckRequests(r, error_out) ==
    LET got == check_requests(r, error_out) IN
    /\ reqCall' = [op |-> "check_requests", seq |-> 1 - reqCall.seq, r |-> r,
                   error_out |-> error_out, raised |-> got.raised,
                   message |-> got.message, returned |-> got.returned]
    /\ UNCHANGED <<now, credentials, ini, call, credCall, disk, dirs,
                   dataCall, clientVars, botVars, loggers, fiddy_loggers,
                   logCall, workCall, procs, indVars>>

NextRequests ==
    \E method \in Methods, url \in Urls, status_code \in Statuses,
       error_out \in BOOLEAN :
        CheckRequests(Response(method, url, status_code), error_out)

SpecRequests == InitCache /\ [][NextRequests]_vars

\* A step that is a call of check_requests.
IsCheck == reqCall'.seq # reqCall.seq

\* C25: for a response with a status from 200 to 299 check_requests returns
\* (True, msg); for any other status it raises RequestError(msg) when
\* error_out is True and returns (False, msg) when it is False; msg is
\* '<method> to <URL> returned <status>'.
C25_ClassifiesBy2xx ==
    [][IsCheck
       => LET r == reqCall'.r
              msg == r.method \o " to " \o r.url \o " returned "
                       \o ToString(r.status_code)
          IN  IF r.status_code \in 200 .. 299
              THEN /\ reqCall'.raised = None
                   /\ reqCall'.returned = <<TRUE, msg>>
              ELSE IF reqCall'.error_out
              THEN /\ reqCall'.raised = "RequestError"
                   /\ reqCall'.message = msg
              ELSE /\ reqCall'.raised = None
                   /\ reqCall'.returned = <<FALSE, msg>>]_vars

(***************************************************************************)
(* fiddy.logger: the registry of loggers. The logging module keeps one     *)
(* logger object for each name, so a logger is told by its name.           *)
(***************************************************************************)
\* log_levels, after verbose is brought into 0 .. 3
log_levels(verbose) ==
    LET clamped == IF verbose > 3 THEN 3 ELSE IF verbose < 0 THEN 0
                   ELSE verbose
    IN  CASE clamped = 3 -> 10
          [] clamped = 2 -> 20
          [] clamped = 1 -> 30
          [] clamped = 0 -> 40

\* logging.getLogger(name): the logger of that name, made with no handler
\* when there is none yet
getLogger(ls, name) ==
    IF name \in DOMAIN ls THEN ls
    ELSE (name :> [level |-> 0, handlers |-> <<>>]) @@ ls

\* log.setLevel(level)
setLevel(ls, name, level) == [ls EXCEPT ![name].level = level]

\* log.addHandler(handler)
addHandler(ls, name, handler) ==
    [ls EXCEPT ![name].handlers = Append(@, handler)]

FileHandler(log_file, level) ==
    [kind |-> "FileHandler", file |-> log_file, level |-> level]
StreamHandler(level) == [kind |-> "StreamHandler", level |-> level]

\* What a call leaves: the loggers, the registry, what it raised or returned
LoggerResult(ls, registry, raised, returned) ==
    [loggers |-> ls, fiddy_loggers |-> registry, raised |-> raised,
     returned |-> returned]

\* A variant that does not look the name up in the registry first.
logger_NoLookup(ls, registry, name, log_file, verbose, can_open) ==
    LET attached(ls2) ==
            LoggerResult(ls2, (name :> name) @@ registry, None, name)
    IN  IF ~can_open
        THEN LoggerResult(setLevel(getLogger(ls, name), name, 10), registry,
                          "OSError", None)
        ELSE attached(
                 addHandler(
                     addHandler(setLevel(getLogger(ls, name), name, 10),
                                name,
                                FileHandler(log_file, log_levels(verbose))),
                     name, StreamHandler(log_levels(verbose))))
\* logger(name, log_file, verbose); can_open tells whether log_file can be
\* opened for appending (logging.FileHandler raises OSError when it cannot)
logger(ls, registry, name, log_file, verbose, can_open) ==
    LET attached(ls2) ==
            LoggerResult(ls2, (name :> name) @@ registry, None, name)
    IN  IF name \in DOMAIN registry
        THEN LoggerResult(ls, registry, None, registry[name])
        ELSE IF ~can_open
        THEN LoggerResult(setLevel(getLogger(ls, name), name, 10), registry,
                          "OSError", None)
        ELSE attached(
                 addHandler(
                     addHandler(setLevel(getLogger(ls, name), name, 10),
                                name,
                                FileHandler(log_file, log_levels(verbose))),
                     name, StreamHandler(log_levels(verbose))))

\* The names, files and values of verbose of the calls
LoggerNames == {"TDA", "Alpaca", "fiddy.logger"}
LogFiles == {"/tmp/fiddy.log", "/var/log/fiddy.log"}
Verboses == {0 - 1, 0, 2, 4}

LoggerReturns(name, log_file, verbose, got) ==
    /\ logCall' = [op |-> "logger", seq |-> 1 - logCall.seq, name |-> name,
                   log_file |-> log_file, verbose |-> verbose,
                   raised |-> got.raised, returned |-> got.returned]
    /\ loggers' = got.loggers
    /\ fiddy_loggers' = got.fiddy_loggers
    /\ UNCHANGED <<now, credentials, ini, call, credCall, disk, dirs,
                   dataCall, clientVars, botVars, reqCall, workCall, procs,
                   indVars>>

Logger(name, log_file, verbose, can_open) ==
    LoggerReturns(name, log_file, verbose,
                  logger(loggers, fiddy_loggers, name, log_file, verbose,
                         can_open))

NextLogger ==
    \E name \in LoggerNames, log_file \in LogFiles, verbose \in Verboses,
       can_open \in BOOLEAN :
        Logger(name, log_file, verbose, can_open)

SpecLogger == InitCache /\ [][NextLogger]_vars

\* The handlers of a kind a logger carries
HandlersOf(ls, name, kind) ==
    {i \in DOMAIN ls[name].handlers : ls[name].handlers[i].kind = kind}

\* C27: every registered name maps to the logger of that name, which carries
\* exactly one file handler and one console handler; and a call with a name
\* registered before returns the logger registered and changes neither the
\* registry nor a logger, whatever its verbose and log_file.
C27_OneLoggerOnePairOfHandlers ==
    /\ [](\A name \in DOMAIN fiddy_loggers :
            /\ fiddy_loggers[name] = name
            /\ name \in DOMAIN loggers
            /\ Cardinality(HandlersOf(loggers, name, "FileHandler")) = 1
            /\ Cardinality(HandlersOf(loggers, name, "StreamHandler")) = 1
            /\ Len(loggers[name].handlers) = 2)
    /\ [][(logCall'.seq # logCall.seq
           /\ logCall'.name \in DOMAIN fiddy_loggers)
          => /\ logCall'.raised = None
             /\ logCall'.returned = fiddy_loggers[logCall'.name]
             /\ fiddy_loggers' = fiddy_loggers
             /\ loggers' = loggers]_vars

\* All three names are registered, and the last call was a second call for
\* its name, with another verbose than the one its handlers were made with.
C27_Witness ==
    /\ DOMAIN fiddy_loggers = LoggerNames
    /\ logCall.op = "logger"
    /\ logCall.raised = None
    /\ logCall.returned = logCall.name
    /\ loggers[logCall.name].handlers[1].level # log_levels(logCall.verbose)

(***************************************************************************)
(* Chat relay: the work of a spawned process, rocketchatbot of             *)
(* fiddy/chatbot/get_ticker_info.py, on the module's tda = Tda().          *)
(***************************************************************************)
\* A variant of Tda that offers the two lookups get_profile calls.
TdaMethods_WithLookups ==
    {"get_fundamental", "get_price_history", "get_daily_quotes",
     "get_minute_quotes", "get_quotes", "get_profile"}
\* The methods class Tda defines
TdaMethods ==
    {"get_fundamental", "get_price_history", "get_daily_quotes",
     "get_minute_quotes"}

\* The text of a sequence of characters
RECURSIVE Text(_)
Text(chars) == IF chars = <<>> THEN "" ELSE Head(chars) \o Text(Tail(chars))

\* What get_profile reads of a quote and of a profile. A dividendDate is the
\* sequence of its parts between blanks.
Quote(assetType, closePrice, mark) ==
    [type |-> "dict", assetType |-> assetType, closePrice |-> closePrice,
     mark |-> mark]
Profile(description, dividendDate, marketCap) ==
    [type |-> "dict", description |-> description,
     dividendDate |-> dividendDate, marketCap |-> marketCap]

\* What the lookups answer, were they there: a quote of an equity or of a
\* mutual fund, nothing for a symbol that is not known, or an error
QuoteAnswers ==
    {[raised |-> None, value |-> Quote("EQUITY", 10, 11)],
     [raised |-> None, value |-> Quote("MUTUAL_FUND", 10, 11)],
     [raised |-> None, value |-> EmptyDict],
     [raised |-> "RequestError", value |-> NoneValue]}
ProfileAnswers ==
    {[raised |-> None,
      value |-> Profile("Apple", <<"2020-08-07", "00:00:00.000">>, 2000)],
     [raised |-> None, value |-> Profile("Fund", <<>>, 50)],
     [raised |-> "RequestError", value |-> NoneValue]}

\* profile['fundamental']['dividendDate'].split()[0], None on IndexError
FirstPart(parts) ==
    IF parts = <<>> THEN "None" ELSE parts[1]

\* The message of lines 40-45
ProfileMessage(symbol, quote, profile) ==
    [type |-> "str",
     value |-> Text(symbol) \o " (" \o profile.description \o ") Quote: $"
               \o ToString(quote) \o " Market Cap: $"
               \o ToString(profile.marketCap) \o " Dividend Date: "
               \o FirstPart(profile.dividendDate) \o " Dividend Pay Date: "
               \o FirstPart(profile.dividendDate)]

\* get_profile(symbol): tda.get_quotes and tda.get_profile are looked up on
\* the Tda object when they are called
get_profile(symbol, quote, profile) ==
    LET described(q) ==
            IF "get_profile" \notin TdaMethods
            THEN [raised |-> "AttributeError", returned |-> NoneValue]
            ELSE IF profile.raised # None
            THEN [raised |-> profile.raised, returned |-> NoneValue]
            ELSE [raised |-> None,
                  returned |-> ProfileMessage(Upper(symbol), q,
                                              profile.value)]
    IN  IF "get_quotes" \notin TdaMethods
        THEN [raised |-> "AttributeError", returned |-> NoneValue]
        ELSE IF quote.raised # None
        THEN [raised |-> quote.raised, returned |-> NoneValue]
        ELSE IF quote.value = EmptyDict
        THEN [raised |-> None, returned |-> NoneValue]
        ELSE IF quote.value.assetType = "MUTUAL_FUND"
        THEN described(quote.value.closePrice)
        ELSE described(quote.value.mark)

\* What requests.post to chat.postMessage does: an answer, whose status
\* rocketchatbot does not look at, or no connection
PostAnswers ==
    {[raised |-> None, status_code |-> 200],
     [raised |-> None, status_code |-> 401],
     [raised |-> "ConnectionError", status_code |-> 0]}

\* rocketchatbot(ticker, url, channel, request_header): what it raised, and
\* the bodies it posted to chat.postMessage
rocketchatbot(ticker, url, channel, quote, profile, post) ==
    LET posted(message) ==
            [raised |-> post.raised,
             posts |-> <<[url |-> "https://" \o url
                                    \o "/api/v1/chat.postMessage",
                          data |-> json_dumps([channel |-> channel,
                                               text |-> message])]>>]
        looked_up(got) ==
            IF got.raised # None
            THEN [raised |-> got.raised, posts |-> <<>>]
            ELSE posted(got.returned)
    IN  looked_up(get_profile(ticker, quote, profile))

\* The tickers the relay starts processes for
WorkTickers == {strip(word) : word \in {w \in Words : re_match(w)}}

Rocketchatbot(ticker, channel, quote, profile, post) ==
    LET got == rocketchatbot(ticker, BotCredentials.url, channel, quote,
                             profile, post)
    IN  /\ workCall' = [op |-> "rocketchatbot", seq |-> 1 - workCall.seq,
                        ticker |-> ticker, channel |-> channel,
                        quote |-> quote, profile |-> profile, post |-> post,
                        raised |-> got.raised, posts |-> got.posts]
        /\ UNCHANGED <<now, credentials, ini, call, credCall, disk, dirs,
                       dataCall, clientVars, botVars, reqCall, loggers,
                       fiddy_loggers, logCall, procs, indVars>>

NextWork ==
    \E ticker \in WorkTickers, quote \in QuoteAnswers,
       profile \in ProfileAnswers, post \in PostAnswers :
        Rocketchatbot(ticker, channel_ids[2], quote, profile, post)

\* The relay that starts the processes subscribed to two channels.
InitWork == InitBot /\ channel_ids = TwoChannels

SpecWork == InitWork /\ [][NextWork]_vars

\* The lookup of a run fails, or yields no result.
LookupFails(w) ==
    \/ get_profile(w.ticker, w.quote, w.profile).raised # None
    \/ get_profile(w.ticker, w.quote, w.profile).returned = NoneValue

Writers == {1, 2}
RaceFile == FundamentalJson("AAPL")

\* What two fetches of a symbol save: the entry of the instruments endpoint
\* as it was at each fetch, the later one with one field more; and the empty
\* answer, which save_data refuses.
LongFundamental ==
    [type |-> "dict", keytype |-> "str", keys |-> {"cusip", "symbol"},
     cusip |-> "saved", symbol |-> "AAPL"]
RaceData ==
    {FundamentalArtifact(isoformat(2), Fundamental("saved")),
     FundamentalArtifact(isoformat(2), LongFundamental),
     EmptyDict}

\* A file open(file_, 'w') has just emptied
Truncated == [format |-> "empty"]

\* The length of a file's text, counted in the keys it spells
TextSize(content) ==
    CASE content.format = "empty" -> 0
      [] content.format = "mixed" -> content.size
      [] content.format = "json" ->
           Cardinality(content.value.keys)
             + (IF "fundamental" \in content.value.keys
                THEN Cardinality(content.value.fundamental.keys) ELSE 0)

\* f.write(text) from the start of a file that was opened with 'w': the text
\* replaces as many bytes as it is long, and what the file held beyond them
\* stays.
Overwrite(old, text) ==
    IF TextSize(old) <= TextSize(text)
    THEN text
    ELSE [format |-> "mixed", head |-> text, size |-> TextSize(old)]

RaceUnchanged ==
    UNCHANGED <<now, credentials, ini, call, credCall, dataCall, clientVars,
                botVars, reqCall, loggers, fiddy_loggers, logCall, workCall,
                indVars>>

\* save_data up to mkdir: the validation of the data, which may raise
SaveBegins(p, data) ==
    LET saved == save_data(disk, dirs, RaceFile, data, "dict") IN
    /\ p \notin DOMAIN procs
    /\ procs' = (p :> [pc |-> IF saved.raised = None THEN "made" ELSE "done",
                       data |-> data, raised |-> saved.raised,
                       last |-> FALSE]) @@ procs
    /\ dirs' = saved.dirs
    /\ UNCHANGED disk
    /\ RaceUnchanged

\* open(file_, 'w')
SaveOpens(p) ==
    /\ p \in DOMAIN procs
    /\ procs[p].pc = "made"
    /\ procs' = [procs EXCEPT ![p].pc = "open"]
    /\ disk' = (RaceFile :> Truncated) @@ disk
    /\ UNCHANGED dirs
    /\ RaceUnchanged

\* json.dump(data, f, indent=2) and the close of the file; the process is
\* now the last that wrote
SaveWrites(p) ==
    /\ p \in DOMAIN procs
    /\ procs[p].pc = "open"
    /\ procs' = [q \in DOMAIN procs |->
                    IF q = p
                    THEN [procs[q] EXCEPT !.pc = "done", !.last = TRUE]
                    ELSE [procs[q] EXCEPT !.last = FALSE]]
    /\ disk' = (RaceFile :>
                  Overwrite(disk[RaceFile],
                            save_data(disk, dirs, RaceFile, procs[p].data,
                                      "dict").disk[RaceFile])) @@ disk
    /\ UNCHANGED dirs
    /\ RaceUnchanged

\* Both processes are through; the next two fetches begin.
SavesEnd ==
    /\ DOMAIN procs = Writers
    /\ \A p \in Writers : procs[p].pc = "done"
    /\ procs' = <<>>
    /\ UNCHANGED <<disk, dirs>>
    /\ RaceUnchanged

\* load_data of the file by a third process, at any moment
RaceLoads ==
    /\ LoadData(RaceFile, "dict")
    /\ dataCall' # dataCall

NextRace ==
    \/ \E p \in Writers, data \in RaceData : SaveBegins(p, data)
    \/ \E p \in Writers : SaveOpens(p)
    \/ \E p \in Writers : SaveWrites(p)
    \/ SavesEnd
    \/ RaceLoads

\* The data directory is empty before the first fetch.
InitRace == InitCache /\ disk = <<>>

SpecRace == InitRace /\ [][NextRace]_vars

\* The complete artifacts a save_data can leave in the file
CompleteArtifacts == {json_dump(data) : data \in RaceData \ {EmptyDict}}

\* C23: whatever the interleaving of two processes saving the same cache
\* file, the file is absent or holds the complete artifact of one of them, a
\* load_data of it raises nothing, and once both are through with one of
\* them having written, the file holds what that last writer saved.
C23_NeverCorrupted ==
    /\ RaceFile \in DOMAIN disk => disk[RaceFile] \in CompleteArtifacts
    /\ dataCall.op = "load_data" => dataCall.raised = None
    /\ \A p \in DOMAIN procs :
          (procs[p].last /\ \A q \in DOMAIN procs : procs[q].pc = "done")
             => disk[RaceFile] = json_dump(procs[p].data)

(***************************************************************************)
(* Two processes running save_credentials on the same file.  Each loads    *)
(* the file and builds its image, then open(file_, 'w') empties the file,  *)
(* then the image is written from the start of the file at the close; the  *)
(* processes run these one system call at a time, each once.               *)
(***************************************************************************)
\* What the two processes save: a token, or a key and a token
RaceCredentials ==
    {[token |-> "v1"], [api_key |-> "v1", token |-> "v2"]}

\* The lines of the text of an image: for each section its header, its
\* options and the blank line after them
RECURSIVE ImageSize(_)
ImageSize(image) ==
    IF DOMAIN image = {} THEN 0
    ELSE LET section == CHOOSE s \in DOMAIN image : TRUE IN
         2 + Cardinality(DOMAIN image[section])
           + ImageSize([s \in DOMAIN image \ {section} |-> image[s]])

\* A file that holds an image followed by what is left of a longer text
IsImage(content) == "head" \notin DOMAIN content
FileSize(content) ==
    IF IsImage(content) THEN ImageSize(content) ELSE content.size

\* loaded_credentials.write(f) on a file opened with 'w', written at the
\* close from the start of the file: the image replaces as many lines as it
\* is long, and what the file held beyond them stays.
WriteImage(old, image) ==
    IF FileSize(old) <= ImageSize(image)
    THEN image
    ELSE [head |-> image, size |-> FileSize(old)]

CredRaceUnchanged ==
    UNCHANGED <<now, credentials, call, credCall, disk, dirs, dataCall,
                clientVars, botVars, reqCall, loggers, fiddy_loggers,
                logCall, workCall, indVars>>

\* save_credentials up to the open: the load and the image built from it
CredBegins(p, section, creds) ==
    LET saved == save_credentials(ini, CredFile, section, creds) IN
    /\ p \notin DOMAIN procs
    /\ IsImage(ini[CredFile])
    /\ procs' = (p :> [pc |-> IF saved.raised = None THEN "loaded"
                              ELSE "done",
                       section |-> section, values |-> creds,
                       image |-> saved.fs[CredFile],
                       raised |-> saved.raised, last |-> FALSE]) @@ procs
    /\ UNCHANGED ini
    /\ CredRaceUnchanged

\* open(file_, 'w')
CredOpens(p) ==
    /\ p \in DOMAIN procs
    /\ procs[p].pc = "loaded"
    /\ procs' = [procs EXCEPT ![p].pc = "open"]
    /\ ini' = [ini EXCEPT ![CredFile] = <<>>]
    /\ CredRaceUnchanged

\* loaded_credentials.write(f) and the close of the file; the process is now
\* the last that wrote
CredWrites(p) ==
    /\ p \in DOMAIN procs
    /\ procs[p].pc = "open"
    /\ procs' = [q \in DOMAIN procs |->
                    IF q = p
                    THEN [procs[q] EXCEPT !.pc = "done", !.last = TRUE]
                    ELSE [procs[q] EXCEPT !.last = FALSE]]
    /\ ini' = [ini EXCEPT ![CredFile] = WriteImage(@, procs[p].image)]
    /\ CredRaceUnchanged

NextCredRace ==
    \/ \E p \in Writers, section \in Sections, creds \in RaceCredentials :
          CredBegins(p, section, creds)
    \/ \E p \in Writers : CredOpens(p)
    \/ \E p \in Writers : CredWrites(p)

SpecCredRace == Init /\ [][NextCredRace]_vars

\* C24: once two processes that ran save_credentials on the file are both
\* through, the file holds the complete image the one that wrote last built,
\* and nothing else.
C24_LastWriterWins ==
    \A p \in DOMAIN procs :
        (/\ DOMAIN procs = Writers
         /\ \A q \in Writers : procs[q].pc = "done"
         /\ procs[p].last)
           => /\ IsImage(ini[CredFile])
              /\ ini[CredFile] = procs[p].image

\* C32: get_last_closing_date, no calendar being cached and the remote
\* calendar read, raises IndexError exactly when no entry of the calendar
\* closes (market_close, or session_close with extended hours) strictly
\* before the time of the lookup; and a date it returns is never later than
\* the date of that time.
C32_IndexErrorWhenNoneBefore ==
    [][(/\ IsAlpacaCall("get_last_closing_date")
        /\ DOMAIN disk = {}
        /\ ~alpacaCall'.api.raised)
       => LET t == LookupTime(alpacaCall'.time_,
                              alpacaCall'.extended_hours)
              before == {c \in Closings(alpacaCall'.api.value,
                                        alpacaCall'.extended_hours) :
                            Before(c, t)}
          IN  /\ (alpacaCall'.raised = "IndexError") = (before = {})
              /\ alpacaCall'.raised = None
                 => alpacaCall'.returned.date <= t.date]_vars

\* C33: get_calendar_dt, the remote calendar being read when it is asked
\* for, returns a calendar each of whose entries opens its session at
\* 00:00:01 and closes it at 23:59:59 of its date, with market_open not after
\* market_close, and leaves it saved in calendar.pickle; and a call that
\* follows a call that returned, before one day has passed since, returns
\* the same calendar with no call of the remote API.
C33_CalendarDtCached ==
    [][(/\ IsAlpacaCall("get_calendar_dt")
        /\ ~alpacaCall'.api.raised)
       => /\ alpacaCall'.raised = None
          /\ alpacaCall'.returned.type = "list"
          /\ \A i \in DOMAIN alpacaCall'.returned.items :
                LET cal == alpacaCall'.returned.items[i] IN
                /\ cal.session_open.hms = <<0, 0, 1>>
                /\ cal.session_close.hms = <<23, 59, 59>>
                /\ cal.session_open.date = cal.session_close.date
                /\ ~Before(cal.market_close, cal.market_open)
          /\ AlpacaCalendarPickle \in DOMAIN disk'
          /\ (/\ alpacaCall.op = "get_calendar_dt"
              /\ alpacaCall.raised = None
              /\ today < alpacaCall.day + CalendarDtLifetime)
             => /\ alpacaCall'.fetched = 0
                /\ alpacaCall'.returned = alpacaCall.returned]_vars

(***************************************************************************)
(* Claims on Tda.get_daily_quotes.                                         *)
(***************************************************************************)
\* The dates of the calendar c whose session has closed when the clock
\* shows the date day: a session closes at 23:59:59 of its date.
ClosedSessions(c, day) ==
    {d \in {strptime_date(c.items[i].date) : i \in DOMAIN c.items} : d < day}

\* The latest of a set of dates
Latest(dates) == CHOOSE d \in dates : \A other \in dates : other <= d

\* The file of a symbol is the same before and after the step.
SameFile(file_) ==
    /\ (file_ \in DOMAIN disk') = (file_ \in DOMAIN disk)
    /\ file_ \in DOMAIN disk => disk'[file_] = disk[file_]

\* C31: get_daily_quotes(cache=True), the calendar API answering: when
\* daily.csv holds candles whose last is of the last session closed at the
\* time of the call, the saved frame is returned, no request is made and the
\* file stays; otherwise (no file, or a later session has closed), the token
\* being granted and the symbol known, the price history is fetched, an
\* empty one giving an empty frame and leaving the file alone, any other
\* being returned and left in daily.csv.
C31_DailyCacheUntilNextClose ==
    [][(/\ IsTdaCall("get_daily_quotes")
        /\ tdaCall'.args.cache
        /\ ~tdaCall'.args.api.raised)
       => LET file_ == DailyQuotesCsv(upper(tdaCall'.args.symbol))
              closed == ClosedSessions(tdaCall'.args.api.value, today)
              answer == tdaCall'.args.answer
              first == tdaCall'.args.answers[1]
          IN  IF /\ file_ \in DOMAIN disk
                 /\ closed # {}
                 /\ disk[file_].rows = Latest(closed)
              THEN /\ tdaCall'.raised = None
                   /\ tdaCall'.returned.type = "DataFrame"
                   /\ tdaCall'.returned.rows = disk[file_].rows
                   /\ tdaCall'.requests = <<>>
                   /\ SameFile(file_)
              ELSE (/\ TokenGranted(tdaCall'.args.token)
                    /\ FundamentalJson("AAPL") \in DOMAIN disk
                       \/ (answer.status = 200 /\ NotEmpty(answer.json))
                    /\ first.status = 200)
                   => /\ tdaCall'.raised = None
                      /\ \E i \in DOMAIN tdaCall'.requests :
                            tdaCall'.requests[i].endpoint = "pricehistory"
                      /\ IF first.candles = <<>>
                         THEN /\ tdaCall'.returned = EmptyFrame
                              /\ SameFile(file_)
                         ELSE /\ tdaCall'.returned
                                   = DataFrame(List(first.candles))
                              /\ file_ \in DOMAIN disk'
                              /\ disk'[file_]
                                   = to_csv(DataFrame(List(first.candles)))]_vars

(***************************************************************************)
(* The token lifecycle with a token endpoint whose answers may lack keys.  *)
(***************************************************************************)
\* A response body without one of its keys
Without(json, key) == [k \in DOMAIN json \ {key} |-> json[k]]

\* The endpoint's answers: no answer, an error body, a token response, and
\* the token response without one of the five keys get_access_token reads
MalformedResponses ==
    {[raised |-> TRUE, json |-> <<>>],
     [raised |-> FALSE, json |-> ErrorJson],
     [raised |-> FALSE,
      json |-> Json(AccessMargin + 2, RefreshMargin + 1, <<"a1", "r1">>)]}
    \cup {[raised |-> FALSE,
           json |-> Without(Json(AccessMargin + 2, RefreshMargin + 1,
                                 <<"a1", "r1">>), key)] :
            key \in {"expires_in", "refresh_token_expires_in",
                     "access_token", "refresh_token", "token_type"}}

CallToken ==
    \E save \in BOOLEAN, cache \in BOOLEAN, code_out \in Codes \cup {None},
       resp \in MalformedResponses :
        /\ Truthy(credentials["code"]) => code_out = None
        /\ GetAccessToken(save, cache, code_out, resp)

NextToken == CallToken \/ Tick

SpecToken == Init /\ [][NextToken]_vars

\* C34: a call of get_access_token that raises because the request failed
\* or because the response lacks a key leaves the five fields of the token
\* pair held in memory as they were, and the credentials file as it was.
C34_FailedCallChangesNothing ==
    [][(/\ call'.seq # call.seq
        /\ call'.raised \in {"RequestException", "KeyError"})
       => /\ \A key \in TokenKeys : credentials'[key] = credentials[key]
          /\ ini' = ini]_vars

(***************************************************************************)
(* Calls that leave the defaults of the signatures to work: a long-running *)
(* process that imported the modules on the first day calls                *)
(* get_last_closing_date without time_ and get_minute_quotes without       *)
(* end_day as the days pass.                                               *)
(***************************************************************************)
\* end_day: dt.date = dt.datetime.now(tz).date() in the signature of
\* get_minute_quotes: the date when the def statement ran
ImportDate == Date(ImportTime.date)

\* get_last_closing_date(extended_hours=...): time_ is its default
GetLastClosingDateNow(extended_hours, api) ==
    GetLastClosingDate(ImportTime, extended_hours, api)

\* get_minute_quotes(symbol, start_day=..., frequency=...): end_day is its
\* default
GetMinuteQuotesToday(symbol, start_day, frequency, token, answer, history) ==
    GetMinuteQuotes(symbol, start_day, ImportDate, frequency, token, answer,
                    history)

NextDefaults ==
    \/ \E extended_hours \in BOOLEAN, api \in ApiAnswers :
          GetLastClosingDateNow(extended_hours, api)
    \/ \E symbol \in Symbols,
          start_day \in {NoneValue} \cup {Date(d) : d \in BusinessDates},
          frequency \in {1}, token \in TokenAnswersNow,
          answer \in InstrumentAnswers, history \in Histories :
            GetMinuteQuotesToday(symbol, start_day, frequency, token, answer,
                                 history)
    \/ DayTick

SpecDefaults == InitTda /\ [][NextDefaults]_vars

\* C35: a call of get_last_closing_date without time_ works with a time_ of
\* the date the clock shows at the call, and a call of get_minute_quotes
\* without end_day works with that date as end_day.
C35_DefaultsFollowClock ==
    [][/\ IsAlpacaCall("get_last_closing_date")
          => alpacaCall'.time_.date = today
       /\ IsTdaCall("get_minute_quotes")
          => tdaCall'.args.end_day = Date(today)]_vars

(***************************************************************************)
(* Claims on a symbol the remote API does not know.                        *)
(***************************************************************************)
\* The step is a call for a symbol of which no fundamental is cached and for
\* which the instruments endpoint answers 200 with an empty body, the token
\* being granted.
UnknownSymbol ==
    /\ FundamentalJson(upper(tdaCall'.args.symbol)) \notin DOMAIN disk
    /\ tdaCall'.args.answer.status = 200
    /\ ~NotEmpty(tdaCall'.args.answer.json)
    /\ TokenGranted(tdaCall'.args.token)

\* The call asked for no price history and left the files as they were.
NothingFetched ==
    /\ \A i \in DOMAIN tdaCall'.requests :
          tdaCall'.requests[i].endpoint # "pricehistory"
    /\ disk' = disk

\* C36: for a symbol the remote API does not know, get_fundamental returns
\* None and writes no file, and get_minute_quotes and get_daily_quotes with
\* no daily.csv to answer from raise ValueError, having asked for no price
\* history and written no file.
C36_UnknownSymbolRefused ==
    [][/\ (IsTdaCall("get_fundamental") /\ UnknownSymbol)
          => /\ tdaCall'.raised = None
             /\ tdaCall'.returned = NoneValue
             /\ disk' = disk
       /\ (IsTdaCall("get_minute_quotes") /\ UnknownSymbol)
          => /\ tdaCall'.raised = "ValueError"
             /\ NothingFetched
       /\ (/\ IsTdaCall("get_daily_quotes")
           /\ UnknownSymbol
           /\ DailyQuotesCsv(upper(tdaCall'.args.symbol)) \notin DOMAIN disk)
          => /\ tdaCall'.raised = "ValueError"
             /\ NothingFetched]_vars

\* ---------------------------------------------------------------------
\* fiddy.indicators.support_resistance
\* ---------------------------------------------------------------------

\* The candles the frames are made of, by their low and their high.
Bar(low, high) == [low |-> low, high |-> high]
Candles ==
    {Bar(2, 3), Bar(1, 4), Bar(0, 5), Bar(0, 0), Bar(1, 6)}

\* The longest frame handed to the indicator.
MaxRows == 6

\* df_quotes['low'][row] and df_quotes['high'][row]: python counts the rows
\* of a frame from 0.
Low(df_quotes, row) == df_quotes[row + 1].low
High(df_quotes, row) == df_quotes[row + 1].high

\* abs() of an integer.
Abs(x) == IF x < 0 THEN 0 - x ELSE x

is_support(df_quotes, row) ==
    /\ Low(df_quotes, row) < Low(df_quotes, row - 1)
    /\ Low(df_quotes, row) < Low(df_quotes, row + 1)
    /\ Low(df_quotes, row + 1) < Low(df_quotes, row + 2)
    /\ Low(df_quotes, row - 1) < Low(df_quotes, row - 2)

is_resistance(df_quotes, row) ==
    /\ High(df_quotes, row) > High(df_quotes, row - 1)
    /\ High(df_quotes, row) > High(df_quotes, row + 1)
    /\ High(df_quotes, row + 1) > High(df_quotes, row + 2)
    /\ High(df_quotes, row - 1) > High(df_quotes, row - 2)

\* The sum of high - low over the first n rows.
RECURSIVE CandleSizes(_, _)
CandleSizes(df_quotes, n) ==
    IF n = 0
    THEN 0
    ELSE CandleSizes(df_quotes, n - 1)
         + (High(df_quotes, n - 1) - Low(df_quotes, n - 1))

\* np.mean(high - low), kept as the sum and the number of rows.
get_avg_candle_size(df_quotes) ==
    [sum |-> CandleSizes(df_quotes, Len(df_quotes)), count |-> Len(df_quotes)]

\* distance < avg_candle_size
Below(distance, avg_candle_size) ==
    distance * avg_candle_size.count < avg_candle_size.sum

\* Each x of levels is a tuple (row, level): level - x is the array of the
\* two differences, and np.sum counts the differences below the size, the
\* one to the row number included.
is_far_from_level(level, levels, avg_candle_size) ==
    \A i \in DOMAIN levels :
        /\ ~Below(Abs(level - levels[i][1]), avg_candle_size)
        /\ ~Below(Abs(level - levels[i][2]), avg_candle_size)

\* The loop of get_support_resistance from row on: a row that is a support
\* is not looked at as a resistance.
RECURSIVE scan_levels(_, _, _, _)
scan_levels(df_quotes, row, levels, avg_candle_size) ==
    IF row >= Len(df_quotes) - 2
    THEN levels
    ELSE LET accept(level) ==
                 IF is_far_from_level(level, levels, avg_candle_size)
                 THEN Append(levels, <<row, level>>)
                 ELSE levels
             after ==
                 IF is_support(df_quotes, row)
                 THEN accept(Low(df_quotes, row))
                 ELSE IF is_resistance(df_quotes, row)
                      THEN accept(High(df_quotes, row))
                      ELSE levels
         IN scan_levels(df_quotes, row + 1, after, avg_candle_size)

\* sorted() of a list of numbers.
RECURSIVE sorted(_)
sorted(list) ==
    IF list = <<>>
    THEN <<>>
    ELSE LET least ==
                 CHOOSE i \in DOMAIN list :
                     \A j \in DOMAIN list : list[i] <= list[j]
             rest ==
                 [k \in 1 .. Len(list) - 1 |->
                     IF k < least THEN list[k] ELSE list[k + 1]]
         IN <<list[least]>> \o sorted(rest)

get_support_resistance(df_quotes) ==
    LET levels ==
            scan_levels(df_quotes, 2, <<>>, get_avg_candle_size(df_quotes))
    IN sorted([i \in DOMAIN levels |-> levels[i][2]])

\* The frame of quotes grows by one candle.
ReadCandle(candle) ==
    /\ Len(quotesFrame) < MaxRows
    /\ quotesFrame' = Append(quotesFrame, candle)
    /\ UNCHANGED <<now, credentials, ini, call, credCall, disk, dirs,
                   dataCall, clientVars, botVars, auxVars, levelsCall>>

\* get_support_resistance(df_quotes) on the frame: with no row,
\* np.mean is not a number and the loop has nothing to scan.
GetSupportResistance ==
    /\ levelsCall' =
           [op |-> "get_support_resistance",
            df_quotes |-> quotesFrame,
            returned |-> get_support_resistance(quotesFrame)]
    /\ UNCHANGED <<now, credentials, ini, call, credCall, disk, dirs,
                   dataCall, clientVars, botVars, auxVars, quotesFrame>>

NextLevels ==
    \/ \E candle \in Candles : ReadCandle(candle)
    \/ GetSupportResistance

SpecLevels == Init /\ [][NextLevels]_vars

\* ---------------------------------------------------------------------
\* Claims on get_support_resistance
\* ---------------------------------------------------------------------

\* A level is far from the accepted levels when its distance to each of
\* them is at least the average candle size.
FarFromLevels(level, accepted, avg_candle_size) ==
    \A i \in DOMAIN accepted :
        ~Below(Abs(level - accepted[i]), avg_candle_size)

\* The levels accepted from row on, in row order: the low of every fractal
\* support and the high of every fractal resistance that is far from the
\* levels accepted before it.
RECURSIVE FractalLevels(_, _, _, _)
FractalLevels(df_quotes, row, accepted, avg_candle_size) ==
    IF row >= Len(df_quotes) - 2
    THEN accepted
    ELSE LET with_support ==
                 IF /\ is_support(df_quotes, row)
                    /\ FarFromLevels(Low(df_quotes, row), accepted,
                                     avg_candle_size)
                 THEN Append(accepted, Low(df_quotes, row))
                 ELSE accepted
             with_resistance ==
                 IF /\ is_resistance(df_quotes, row)
                    /\ FarFromLevels(High(df_quotes, row), with_support,
                                     avg_candle_size)
                 THEN Append(with_support, High(df_quotes, row))
                 ELSE with_support
         IN FractalLevels(df_quotes, row + 1, with_resistance,
                          avg_candle_size)

\* C37: get_support_resistance returns, in ascending order, the low of every
\* 4-candle-fractal support and the high of every 4-candle-fractal
\* resistance of rows 2..n-3, scanned in row order, whose distance to each
\* level accepted before it is at least the mean of high - low; any two
\* returned levels differ by at least that mean, and no fractal level that
\* far from the accepted levels is left out.
C37_FractalLevelsReturned ==
    levelsCall.op = "get_support_resistance"
    => LET df_quotes == levelsCall.df_quotes
           returned == levelsCall.returned
           avg_candle_size == get_avg_candle_size(df_quotes)
       IN /\ returned =
                 sorted(FractalLevels(df_quotes, 2, <<>>, avg_candle_size))
          /\ \A i, j \in DOMAIN returned :
                 i < j => /\ returned[i] <= returned[j]
                          /\ ~Below(returned[j] - returned[i],
                                    avg_candle_size)

====
